---------------------------- MODULE Spec2Model ----------------------------
(***************************************************************************)
(* A model of the project-file synthesis code of the CUGL build scripts    *)
(* (cugl/scripts/apple.py, windows.py and android.py).                     *)
(*                                                                         *)
(* Text is modelled at the granularity the code inspects it at.  A pbxproj *)
(* file is a sequence of lines; a line is a record whose kind decides      *)
(* every test parse_pbxproj makes of it (the Begin/End markers, blankness, *)
(* brace parity).  A string built by concatenating lines is the sequence   *)
(* of those lines, so accum+line is Append(accum, line) and None is <<>>.  *)
(*                                                                         *)
(* The module holds one specification per part of the scripts:             *)
(*   Spec          parse_pbxproj, the edits of make() and write_pbxproj    *)
(*   SpecPlace     place_entries as populate_assets applies it             *)
(*   SpecSolution  parse_solution, write_solution, extract_module_projects *)
(*   SpecGroups    build_groups and build_filters                          *)
(*   SpecTargets   expand_targets on the Xcode project of a module         *)
(*   SpecExternals    add_macos_externals, add_ios_externals: the linking  *)
(*                    of external modules into the Xcode project           *)
(*   SpecWindows      make of windows.py from add_externals on             *)
(*   SpecAndroid      the steps of make of android.py                      *)
(*   SpecOrientation  determine_orientation of apple.py and android.py     *)
(*   SpecSources      the compiled sources of the three back ends          *)
(*   SpecAppleMake    make of apple.py from assign_orientation to the      *)
(*                    defines: the settings of the Xcode project           *)
(*   SpecIntegrate    integrate_external_module on the root solution       *)
(***************************************************************************)
EXTENDS Integers, Sequences, FiniteSets, TLC

VARIABLES
    (* parse_pbxproj / write_pbxproj / make (apple.py) *)
    source,     \* the lines of project.pbxproj read so far
    p,          \* locals of parse_pbxproj: state, block, accum, brace, between
    contents,   \* the dictionary of XCode objects (section name -> list of blocks)
    PBXOrder,   \* contents['PBXOrder']
    pc,         \* where make() is
    written,    \* the lines write_pbxproj wrote
    edits,      \* number of blocks appended or rewritten since the parse
    (* place_entries / populate_assets / populate_sources (apple.py) *)
    groups,     \* pbxproj['PBXGroup']: a list of object blocks
    template,   \* the same list as it was before it was populated
    entries,    \* the entries handed to place_entries
    ppc,        \* which of the populate functions has run
    (* parse_solution / write_solution / extract_module_projects (windows.py) *)
    slnfile,    \* the lines of the solution file read so far
    sp,         \* locals of parse_solution: state, contents, project, globals, dependency
    solndata,   \* the parsed solution data, as the caller holds it
    targets,    \* module['targets']
    targetset,  \* the projects found by expand_targets
    slnout,     \* the lines write_solution wrote
    spc,        \* where the caller of parse_solution is
    (* build_groups (apple.py) / build_filters (windows.py) *)
    source_tree,   \* the Source File Tree below the source directory
    sourcedir,  \* the path of the source directory
    grouptable, \* the (uuid, result) pair the function returned
    gpc,        \* which of the two functions has run
    (* expand_targets / configure_external (apple.py) *)
    xproj,      \* the parsed Xcode project of the module
    xroots,     \* module['targets']
    xtargets,   \* targetset
    tpc,        \* where configure_external is
    (* add_macos_externals / add_ios_externals (apple.py) *)
    externals,  \* config['external']
    pbxproj,    \* the lists of the host pbxproj the linker touches
    xprev,      \* pbxproj before the last pass of the loop
    xlast,      \* the last pass: module, platform, generator outcome
    xstep,      \* the platform and module the loop is at, and the working directory
    (* make (windows.py) *)
    wconfig,    \* config: the keys it has of 'external' and windows.'builds',
                \* external, include_dict, define_dict, windows.builds
    wdev,       \* util.get_dev_platform()
    wproject,   \* the application's vcxproj
    wmake,      \* what make has done, <<>> before it
    (* make (android.py) *)
    akeys,      \* the keys of config
    astep,      \* the function make is to call next
    amutated,   \* the functions that have changed the build directory
    araised,    \* check_config_keys has raised
    (* determine_orientation (apple.py, android.py) *)
    osetting,   \* config['orientation']
    oapple,     \* the value for the Xcode project, <<>> before the lookup
    oandroid,   \* the value for the Android manifest
    (* populate_sources (apple.py, windows.py), config_ndkmake (android.py) *)
    srctree,    \* config['source_tree']
    compiled,   \* the compiled-source entries made, <<>> before
    (* the settings of the Xcode project (apple.py) *)
    mconfig,    \* the configuration make was called with
    mproject,   \* XCBuildConfiguration and PBXFrameworksBuildPhase of the parsed project
    mstep,      \* the call make is at, the module add_externals is at, what was raised
    (* the modules in the root solution (windows.py) *)
    hconfig,    \* config: camel, windows.uuid and whether it is set, external
    hsolution,  \* the lines of the root solution file
    hprev,      \* the root solution as it was parsed before the last module
    hstep       \* the module add_externals is at

pbxVars == <<source, p, contents, PBXOrder, pc, written, edits>>
placeVars == <<groups, template, entries, ppc>>

slnVars == <<slnfile, sp, solndata, targets, targetset, slnout, spc>>

grpVars == <<source_tree, sourcedir, grouptable, gpc>>

tgtVars == <<xproj, xroots, xtargets, tpc>>

extVars == <<externals, pbxproj, xprev, xlast, xstep>>

winVars == <<wconfig, wdev, wproject, wmake>>

andVars == <<akeys, astep, amutated, araised>>

oriVars == <<osetting, oapple, oandroid>>

srcVars == <<srctree, compiled>>

mkVars == <<mconfig, mproject, mstep>>

intVars == <<hconfig, hsolution, hprev, hstep>>

vars == <<pbxVars, placeVars, slnVars, grpVars, tgtVars, extVars, winVars, andVars, oriVars, srcVars, mkVars, intVars>>

notInt == <<pbxVars, placeVars, slnVars, grpVars, tgtVars, extVars, winVars, andVars, oriVars, srcVars, mkVars>>
notMk == <<pbxVars, placeVars, slnVars, grpVars, tgtVars, extVars, winVars, andVars, oriVars, srcVars, intVars>>
notSrc == <<pbxVars, placeVars, slnVars, grpVars, tgtVars, extVars, winVars, andVars, oriVars, mkVars, intVars>>
notOri == <<pbxVars, placeVars, slnVars, grpVars, tgtVars, extVars, winVars, andVars, srcVars, mkVars, intVars>>
notAnd == <<pbxVars, placeVars, slnVars, grpVars, tgtVars, extVars, winVars, oriVars, srcVars, mkVars, intVars>>
notPbx == <<placeVars, slnVars, grpVars, tgtVars, extVars, winVars, andVars, oriVars, srcVars, mkVars, intVars>>
notPlace == <<pbxVars, slnVars, grpVars, tgtVars, extVars, winVars, andVars, oriVars, srcVars, mkVars, intVars>>
notSln == <<pbxVars, placeVars, grpVars, tgtVars, extVars, winVars, andVars, oriVars, srcVars, mkVars, intVars>>
notGrp == <<pbxVars, placeVars, slnVars, tgtVars, extVars, winVars, andVars, oriVars, srcVars, mkVars, intVars>>
notExt == <<pbxVars, placeVars, slnVars, grpVars, tgtVars, winVars, andVars, oriVars, srcVars, mkVars, intVars>>
notWin == <<pbxVars, placeVars, slnVars, grpVars, tgtVars, extVars, andVars, oriVars, srcVars, mkVars, intVars>>
notTgt == <<pbxVars, placeVars, slnVars, grpVars, extVars, winVars, andVars, oriVars, srcVars, mkVars, intVars>>

(* Each specification below runs one part of the scripts; the variables of *)
(* the other parts then stay at these values.                              *)

IntIdle ==
    /\ hconfig = <<>>
    /\ hsolution = <<>>
    /\ hprev = <<>>
    /\ hstep = <<>>

MkIdle ==
    /\ mconfig = <<>>
    /\ mproject = <<>>
    /\ mstep = <<>>

SrcIdle ==
    /\ srctree = <<>>
    /\ compiled = <<>>

OriIdle ==
    /\ osetting = <<>>
    /\ oapple = <<>>
    /\ oandroid = <<>>

AndIdle ==
    /\ akeys = <<>>
    /\ astep = <<>>
    /\ amutated = <<>>
    /\ araised = <<>>

PbxIdle ==
    /\ source = <<>>
    /\ p = [state |-> "PBXHeader", block |-> "PBXHeader", accum |-> <<>>,
            brace |-> 0, between |-> FALSE]
    /\ contents = [k \in {"PBXHeader"} |-> <<>>]
    /\ PBXOrder = <<"PBXHeader">>
    /\ pc = "idle"
    /\ written = <<>>
    /\ edits = 0

PlaceIdle ==
    /\ groups = <<>>
    /\ template = <<>>
    /\ entries = <<>>
    /\ ppc = "idle"

WinIdle ==
    /\ wconfig = <<>>
    /\ wdev = <<>>
    /\ wproject = <<>>
    /\ wmake = <<>>

ExtIdle ==
    /\ externals = <<>>
    /\ pbxproj = <<>>
    /\ xprev = <<>>
    /\ xlast = <<>>
    /\ xstep = <<>>

TgtIdle ==
    /\ xproj = <<>>
    /\ xroots = <<>>
    /\ xtargets = <<>>
    /\ tpc = "idle"

GrpIdle ==
    /\ source_tree = <<>>
    /\ sourcedir = <<>>
    /\ grouptable = <<>>
    /\ gpc = "idle"

SlnIdle ==
    /\ slnfile = <<>>
    /\ sp = <<>>
    /\ solndata = <<>>
    /\ targets = <<>>
    /\ targetset = <<>>
    /\ slnout = <<>>
    /\ spc = "idle"

-----------------------------------------------------------------------------
(* Bounds of the model *)

MaxLines == 6
MaxEdits == 1

-----------------------------------------------------------------------------
(* Lines of a pbxproj file *)

Sections == {"PBXBuildFile", "PBXGroup"}

\* The kinds of line: "text" (not blank, no braces), "blank" ('\n'), "open"
\* (one more '{' than '}'), "close" (one more '}' than '{'), "begin", "end"
Line(k, s) == [k |-> k, s |-> s]

BeginLine(s) == Line("begin", s)  \* '/* Begin <s> section */\n'
EndLine(s)   == Line("end", s)    \* '/* End <s> section */\n'

None == <<>>

\* util.group_parity(line,'{}'): the number of '{' minus the number of '}'
group_parity(line) ==
    CASE line.k = "open"  -> 1
      [] line.k = "close" -> -1
      [] OTHER            -> 0

\* '/* Begin' in line and 'section */' in line
is_advance(line) == line.k = "begin"

\* ('/* End '+state+' section */') in line
is_complete(line, state) == line.k = "end" /\ line.s = state

\* len(line.strip()) > 0
is_nonblank(line) == line.k # "blank"

RECURSIVE Flatten(_)
Flatten(blocks) ==
    IF blocks = <<>> THEN <<>> ELSE Head(blocks) \o Flatten(Tail(blocks))

\* block.append(accum) on the list that block aliases
append_block(cts, key, accum) == [cts EXCEPT ![key] = Append(@, accum)]

\* if accum: block.append(accum)
append_if(cts, key, accum) ==
    IF accum # None THEN append_block(cts, key, accum) ELSE cts

\* contents[state] = block, with block a fresh empty list
new_section(cts, key) ==
    [k \in DOMAIN cts \cup {key} |-> IF k = key THEN <<>> ELSE cts[k]]

\* if brace < 0: the braces mismatch
brace_mismatch_off(brace) == brace < -1
brace_mismatch(brace) == brace < 0


-----------------------------------------------------------------------------
(* parse_pbxproj: one iteration of `for line in file` *)

Pseudo == {"PBXHeader", "PBXFooter"}

\* The lines the file may continue with.  Files are drawn from the layouts
\* parse_pbxproj distinguishes: free text in the header and the footer, any
\* mix of brace lines and blank lines inside a section, each section opened
\* at most once and closed by its own End marker.
NextLines ==
    IF p.state = "PBXHeader"
      THEN {Line("text", ""), Line("blank", "")} \cup {BeginLine(s) : s \in Sections}
    ELSE IF p.state = "PBXFooter"
      THEN {Line("text", ""), Line("blank", "")}
    ELSE IF p.between
      THEN {Line("text", ""), Line("blank", "")}
             \cup {BeginLine(s) : s \in Sections \ {PBXOrder[i] : i \in DOMAIN PBXOrder}}
    ELSE {Line("text", ""), Line("open", ""), Line("close", ""), Line("blank", ""), EndLine(p.state)}

parse_pbxproj_line(line) ==
    /\ pc = "parse"
    /\ Len(source) < MaxLines
    /\ line \in NextLines
    /\ source' = Append(source, line)
    /\ LET advance  == p.state # "PBXFooter" /\ is_advance(line)
           state    == IF advance THEN line.s ELSE p.state
           order    == IF advance THEN Append(PBXOrder, state) ELSE PBXOrder
           complete == is_complete(line, state)
           grown    == IF p.accum = None THEN <<line>> ELSE Append(p.accum, line)
           brace    == p.brace + group_parity(line)
       IN
       IF advance THEN
            \* Time to advance state
            /\ contents' = new_section(append_if(contents, p.block, p.accum), state)
            /\ PBXOrder' = order
            /\ p' = [state |-> state, block |-> state, accum |-> None,
                     brace |-> 0, between |-> FALSE]
            /\ pc' = pc
       ELSE IF state \in Pseudo THEN
            /\ p' = [p EXCEPT !.accum = grown]
            /\ UNCHANGED <<contents, PBXOrder, pc>>
       ELSE IF complete THEN
            /\ contents' = IF p.accum # None /\ p.accum # <<Line("blank", "")>>
                             THEN append_block(contents, p.block, p.accum)
                             ELSE contents
            /\ p' = [p EXCEPT !.between = TRUE]
            /\ UNCHANGED <<PBXOrder, pc>>
       ELSE IF p.between THEN
            \* Look for evidence of the end
            IF is_nonblank(line) THEN
                 /\ contents' = new_section(append_if(contents, p.block, p.accum),
                                            "PBXFooter")
                 /\ PBXOrder' = Append(PBXOrder, "PBXFooter")
                 /\ p' = [state |-> "PBXFooter", block |-> "PBXFooter",
                          accum |-> <<line>>, brace |-> 0, between |-> FALSE]
                 /\ pc' = pc
            ELSE UNCHANGED <<p, contents, PBXOrder, pc>>
       ELSE
            \* Now it is time to parse objects
            IF brace_mismatch(brace) THEN
                 \* print the error and return None
                 /\ p' = [p EXCEPT !.brace = brace]
                 /\ pc' = "failed"
                 /\ UNCHANGED <<contents, PBXOrder>>
            ELSE /\ contents' = IF brace = 0 /\ grown # <<Line("blank", "")>>
                                  THEN append_block(contents, p.block, grown)
                                  ELSE contents
                 /\ p' = [p EXCEPT !.brace = brace,
                                   !.accum = IF brace = 0 THEN None ELSE grown]
                 /\ UNCHANGED <<PBXOrder, pc>>
    /\ UNCHANGED <<written, edits>>
    /\ UNCHANGED notPbx

\* After the loop: block.append(accum), return contents
parse_pbxproj_return ==
    /\ pc = "parse"
    /\ contents' = append_block(contents, p.block, p.accum)
    /\ pc' = "parsed"
    /\ UNCHANGED <<source, p, PBXOrder, written, edits>>
    /\ UNCHANGED notPbx

\* make() and configure_external() go on to subscript the None that a failed
\* parse returned: pbxproj['PBXFileReference'] raises TypeError.
subscript_none ==
    /\ pc = "failed"
    /\ pc' = "aborted"
    /\ UNCHANGED <<source, p, contents, PBXOrder, written, edits>>
    /\ UNCHANGED notPbx

-----------------------------------------------------------------------------
(* Mutation of the parsed model between parse and write *)

\* pbxproj[section].append(entry), entry a one-line object
append_entry(sec) ==
    /\ pc = "parsed"
    /\ edits < MaxEdits
    /\ sec \in DOMAIN contents /\ sec \notin Pseudo
    /\ contents' = append_block(contents, sec, <<Line("text", "")>>)
    /\ edits' = edits + 1
    /\ UNCHANGED <<source, p, PBXOrder, pc, written>>
    /\ UNCHANGED notPbx

\* section[pos] = <new text for the block>: lines are inserted after its first
reassign_entry(sec, pos) ==
    /\ pc = "parsed"
    /\ edits < MaxEdits
    /\ sec \in DOMAIN contents /\ sec \notin Pseudo
    /\ pos \in DOMAIN contents[sec]
    /\ contents[sec][pos] # None
    /\ contents' = [contents EXCEPT ![sec][pos] =
                        <<Head(@)>> \o <<Line("text", "")>> \o Tail(@)]
    /\ edits' = edits + 1
    /\ UNCHANGED <<source, p, PBXOrder, pc, written>>
    /\ UNCHANGED notPbx

-----------------------------------------------------------------------------
(* write_pbxproj *)

\* for state in pbxproj['PBXOrder']
write_order_reversed(order) ==
    [i \in DOMAIN order |-> order[Len(order) + 1 - i]]
write_order(order) == order

\* What one pass of the outer loop hands to file.write, item by item
write_section(state, cts) ==
    IF state \in Pseudo
      THEN cts[state]
      ELSE <<<<BeginLine(state)>>>> \o cts[state] \o <<<<EndLine(state), Line("blank", "")>>>>

RECURSIVE write_items(_, _)
write_items(order, cts) ==
    IF order = <<>> THEN <<>>
    ELSE write_section(Head(order), cts) \o write_items(Tail(order), cts)

\* file.write(None) raises TypeError: nothing after it is written
RECURSIVE UpToNone(_)
UpToNone(items) ==
    IF items = <<>> \/ Head(items) = None THEN <<>>
    ELSE <<Head(items)>> \o UpToNone(Tail(items))

HasNone(items) == \E i \in DOMAIN items : items[i] = None

write_pbxproj ==
    /\ pc = "parsed"
    /\ LET items == write_items(write_order(PBXOrder), contents)
       IN /\ written' = Flatten(UpToNone(items))
          /\ pc' = IF HasNone(items) THEN "aborted" ELSE "written"
    /\ UNCHANGED <<source, p, contents, PBXOrder, edits>>
    /\ UNCHANGED notPbx

-----------------------------------------------------------------------------

Init ==
    /\ source = <<>>
    /\ p = [state |-> "PBXHeader", block |-> "PBXHeader", accum |-> None,
            brace |-> 0, between |-> FALSE]
    /\ contents = [k \in {"PBXHeader"} |-> <<>>]
    /\ PBXOrder = <<"PBXHeader">>
    /\ pc = "parse"
    /\ written = <<>>
    /\ edits = 0
    /\ PlaceIdle /\ SlnIdle /\ GrpIdle /\ TgtIdle /\ ExtIdle /\ WinIdle /\ AndIdle /\ OriIdle /\ SrcIdle /\ MkIdle /\ IntIdle

Next ==
    \/ \E line \in NextLines : parse_pbxproj_line(line)
    \/ parse_pbxproj_return
    \/ subscript_none
    \/ \E sec \in Sections : append_entry(sec)
    \/ \E sec \in Sections : \E pos \in 1..MaxLines : reassign_entry(sec, pos)
    \/ write_pbxproj

Spec == Init /\ [][Next]_vars

-----------------------------------------------------------------------------
(* place_entries and the callers that store its result back *)

(* An object block is here a sequence of tokens: the pieces of text that   *)
(* place_entries and populate_assets search for, the newline, the tabs and *)
(* the remaining text.                                                     *)

MaxGroups   == 2    \* blocks in the PBXGroup section
MaxExisting == 1    \* entries already in a list
MaxEntries  == 2    \* entries handed to place_entries


\* prefix+' = ('
FieldOpen(prefix) == IF prefix = "children" THEN "children = (" ELSE "files = ("


RECURSIVE Repeat(_, _)
Repeat(piece, n) == IF n = 0 THEN <<>> ELSE piece \o Repeat(piece, n - 1)

\* A PBXGroup-like block: with no list, with a children or files list laid
\* out one entry per line, or with a children list written on one line
GroupBlock(marker, layout, n) ==
    <<marker, "{", "<nl>", "<3tabs>", "isa = PBXGroup;", "<nl>">>
    \o (CASE layout = "none" -> <<>>
          [] layout = "inline" ->
                <<"<3tabs>", FieldOpen("children")>> \o Repeat(<<"Q,">>, n)
                    \o <<");", "<nl>">>
          [] OTHER ->
                <<"<3tabs>", FieldOpen(layout), "<nl>">>
                    \o Repeat(<<"<4tabs>", "Q,", "<nl>">>, n)
                    \o <<"<3tabs>", ");", "<nl>">>)
    \o <<"}", ";", "<nl>">>

GroupBlocks ==
    {GroupBlock(mk, "none", 0) : mk \in {"/* Assets */ =", "/* Products */ ="}}
      \cup {GroupBlock(mk, ly, n) : mk \in {"/* Assets */ =", "/* Products */ ="}, ly \in {"children", "files", "inline"}, n \in 0..MaxExisting}

RECURSIVE SeqsUpTo(_, _)
SeqsUpTo(S, n) ==
    IF n = 0 THEN {<<>>}
    ELSE LET shorter == SeqsUpTo(S, n - 1)
         IN shorter \cup {Append(q, x) : q \in shorter, x \in S}

\* str.find(tok, from): the first index at or after from, 0 when there is none
Find(obj, tok, from) ==
    LET hits == {i \in DOMAIN obj : i >= from /\ obj[i] = tok}
    IN IF hits = {} THEN 0 ELSE CHOOSE i \in hits : \A j \in hits : i <= j

\* tok in obj
Contains(obj, tok) == \E i \in DOMAIN obj : obj[i] = tok

\* indent = '\n\t\t\t\t'
indent == <<"<nl>", "<4tabs>">>

\* indent+indent.join(entries)
RECURSIVE JoinIndent(_)
JoinIndent(ents) ==
    IF ents = <<>> THEN <<>>
    ELSE IF Len(ents) = 1 THEN <<ents[1]>>
    ELSE <<ents[1]>> \o indent \o JoinIndent(Tail(ents))

place_entries_at_field(obj, ents, prefix) ==
    LET line == Find(obj, FieldOpen(prefix), 1)
        children == indent \o JoinIndent(ents)
    IN IF line = 0 THEN None
       ELSE SubSeq(obj, 1, line) \o children \o SubSeq(obj, line + 1, Len(obj))

place_entries(obj, ents, prefix) ==
    LET line == Find(obj, FieldOpen(prefix), 1)
        pos  == Find(obj, "<nl>", line)
        children == indent \o JoinIndent(ents)
    IN IF line = 0 THEN None    \* a bare return
       ELSE IF pos = 0          \* find gave -1: obj[:-1]+children+obj[-1:]
         THEN SubSeq(obj, 1, Len(obj) - 1) \o children \o SubSeq(obj, Len(obj), Len(obj))
       ELSE SubSeq(obj, 1, pos - 1) \o children \o SubSeq(obj, pos, Len(obj))

\* populate_assets, as far as the PBXGroup section goes: the asset entries
\* are placed in the children of every group marked as the Assets group.
populate_assets ==
    /\ ppc = "start"
    /\ groups' = [pos \in DOMAIN groups |->
                    IF Contains(groups[pos], "/* Assets */ =")
                      THEN place_entries(groups[pos], entries, "children")
                      ELSE groups[pos]]
    /\ ppc' = "assets"
    /\ UNCHANGED <<template, entries>>
    /\ UNCHANGED notPlace

PlaceInit ==
    /\ groups \in SeqsUpTo(GroupBlocks, MaxGroups) \ {<<>>}
    /\ template = groups
    /\ entries \in SeqsUpTo({"A,", "B,"}, MaxEntries)
    /\ ppc = "start"
    /\ PbxIdle /\ SlnIdle /\ GrpIdle /\ TgtIdle /\ ExtIdle /\ WinIdle /\ AndIdle /\ OriIdle /\ SrcIdle /\ MkIdle /\ IntIdle

PlaceNext == populate_assets

SpecPlace == PlaceInit /\ [][PlaceNext]_vars

-----------------------------------------------------------------------------
(* Visual Studio solutions: parse_solution, write_solution, expand_targets *)
(* and extract_module_projects (windows.py)                                *)

(* A solution file is a sequence of lines; a line is a record whose kind k *)
(* decides the tests parse_solution makes of it and whose fields a..d are  *)
(* the pieces of text the parser cuts out of it.  A dictionary is the      *)
(* sequence of its (key, val) pairs in insertion order.                    *)

MaxProjects == 2    \* Project entries of a solution file
MaxDeps     == 1    \* lines of one ProjectSection(ProjectDependencies)
MaxValues   == 1    \* lines of one GlobalSection

PROJ_UUID == "8BC9CEB8-8B4A-11D0-8D11-00A0C91BC942"
CONT_UUID == "2150E333-8FDC-42A3-9474-1A3956D46DE8"

Nil == "None"

\* Python dictionaries (insertion ordered)
HasKey(d, k) == \E i \in DOMAIN d : d[i].key = k
DictGet(d, k) == d[CHOOSE i \in DOMAIN d : d[i].key = k].val
DictSet(d, k, v) ==
    IF HasKey(d, k)
      THEN [i \in DOMAIN d |-> IF d[i].key = k THEN [key |-> k, val |-> v] ELSE d[i]]
      ELSE Append(d, [key |-> k, val |-> v])
DictDel(d, k) == SelectSeq(d, LAMBDA e : e.key # k)
DictKeys(d) == {d[i].key : i \in DOMAIN d}

SlnLine(k, a, b, c, d) == [k |-> k, a |-> a, b |-> b, c |-> c, d |-> d]

\* 'Project("{<hook>}") = "<name>", "<path>", "{<uuid>}"\n'
ProjectLine(hook, name, path, uuid) == SlnLine("Project", hook, name, path, uuid)
\* A line that is one keyword: 'EndProject\n', 'Global\n', '\tEndGlobalSection\n',
\* '\tProjectSection(ProjectDependencies) = postProject\n', ...
Keyword(k) == SlnLine(k, "", "", "", "")
\* '\t\t{<g1>} = {<g2>}\n'
DepLine(g1, g2) == SlnLine("Dependency", g1, g2, "", "")
\* '\tGlobalSection(<stage>) = <phase>\n'
GlobalSectionLine(stage, phase) == SlnLine("GlobalSection", stage, phase, "", "")
\* '\t\t{<guid>}<rest>\n'
ValueLine(guid, rest) == SlnLine("Value", guid, rest, "", "")
HeaderLine(text) == SlnLine("Header", text, "", "", "")

\* The locals of parse_solution before the first line
SlnStart ==
    [state |-> "SLNHeader",
     contents |-> [keys |-> {"SLNHeader"}, SLNHeader |-> <<>>,
                   SLNProjects |-> <<>>, SLNGlobals |-> <<>>],
     project |-> Nil, globals |-> Nil, dependency |-> FALSE, failed |-> FALSE]

\* One pass of the loop 'for line in file' of parse_solution
ParseStep(st, line) ==
    IF line.k = "Project" THEN          \* 'Project(' in line
        LET state == IF st.state = "SLNHeader" THEN "SLNProjects" ELSE st.state
            cts == IF st.state = "SLNHeader"
                     THEN [st.contents EXCEPT !.keys = @ \cup {"SLNProjects"},
                                              !.SLNProjects = <<>>]
                     ELSE st.contents
            project == [path |-> line.c, name |-> line.b, hook |-> line.a,
                        dependencies |-> <<>>]
        IN [st EXCEPT !.state = state,
                      !.contents = [cts EXCEPT ![state] = DictSet(@, line.d, project)],
                      !.project = line.d]
    ELSE IF line.k = "Global" THEN      \* 'Global' == line.strip()
        [st EXCEPT !.state = "SLNGlobals",
                   !.contents = [@ EXCEPT !.keys = @ \cup {"SLNGlobals"},
                                          !.SLNGlobals = <<>>]]
    ELSE IF st.state = "SLNHeader" THEN
        [st EXCEPT !.contents.SLNHeader = Append(@, line)]
    ELSE IF st.state = "SLNProjects" THEN
        IF line.k = "ProjectSection(ProjectDependencies)" THEN
            [st EXCEPT !.dependency = TRUE]
        ELSE IF line.k = "EndProjectSection" THEN
            [st EXCEPT !.dependency = FALSE]
        ELSE IF line.k = "EndProject" THEN
            [st EXCEPT !.project = Nil]
        ELSE IF st.dependency THEN
            IF st.project = Nil THEN [st EXCEPT !.failed = TRUE]
            ELSE LET project == DictGet(st.contents.SLNProjects, st.project)
                 IN [st EXCEPT !.contents.SLNProjects =
                        DictSet(@, st.project,
                                [project EXCEPT !.dependencies = Append(@, line.a)])]
        ELSE st
    ELSE \* st.state = "SLNGlobals"
        IF st.globals = Nil /\ line.k = "GlobalSection" THEN
            [st EXCEPT !.globals = line.a,
                       !.contents.SLNGlobals =
                           DictSet(@, line.a, [phase |-> line.b, values |-> <<>>])]
        ELSE IF line.k = "EndGlobalSection" THEN
            [st EXCEPT !.globals = Nil]
        ELSE IF st.globals # Nil THEN
            LET group == DictGet(st.contents.SLNGlobals, st.globals)
            IN [st EXCEPT !.contents.SLNGlobals =
                    DictSet(@, st.globals, [group EXCEPT !.values = Append(@, line)])]
        ELSE st

\* parse_solution on a whole file
RECURSIVE ParseFrom(_, _)
ParseFrom(st, lines) ==
    IF lines = <<>> \/ st.failed THEN st
    ELSE ParseFrom(ParseStep(st, Head(lines)), Tail(lines))

parse_solution(lines) == ParseFrom(SlnStart, lines).contents

\* The lines write_solution writes for one project
project_lines(uuid, entry, dependencies) ==
    <<ProjectLine(entry.hook, entry.name, entry.path, uuid)>>
    \o (IF dependencies /\ entry.hook # CONT_UUID
          THEN <<Keyword("ProjectSection(ProjectDependencies)")>>
               \o [i \in DOMAIN entry.dependencies |->
                      DepLine(entry.dependencies[i], entry.dependencies[i])]
               \o <<Keyword("EndProjectSection")>>
          ELSE <<>>)
    \o <<Keyword("EndProject")>>

\* The lines write_solution writes for one global section
section_lines(section, group) ==
    <<GlobalSectionLine(section, group.phase)>> \o group.values
        \o <<Keyword("EndGlobalSection")>>

\* The file write_solution leaves behind: all of it, or what was written
\* when a missing key stopped it
solution_lines(data, dependencies) ==
    data.SLNHeader
    \o (IF "SLNProjects" \notin data.keys THEN <<>>
        ELSE Flatten([i \in DOMAIN data.SLNProjects |->
                        project_lines(data.SLNProjects[i].key,
                                      data.SLNProjects[i].val, dependencies)])
             \o <<Keyword("Global")>>
             \o (IF "SLNGlobals" \notin data.keys THEN <<>>
                 ELSE Flatten([i \in DOMAIN data.SLNGlobals |->
                                 section_lines(data.SLNGlobals[i].key,
                                               data.SLNGlobals[i].val)])
                      \o <<Keyword("EndGlobal")>>))

KeyError(data) == {"SLNProjects", "SLNGlobals"} \ data.keys # {}

(* The solution files the model reads *)

HeaderText == <<HeaderLine("Microsoft Visual Studio Solution File, Format Version 12.00"),
                HeaderLine("# Visual Studio Version 17")>>

ProjectIds == <<"G1", "G2", "G3">>
Rank(g) == CHOOSE i \in DOMAIN ProjectIds : ProjectIds[i] = g

ProjectLines ==
    {ProjectLine(PROJ_UUID, "ZERO_CHECK", "ZERO_CHECK.vcxproj", "G1"),
     ProjectLine(PROJ_UUID, "lib", "lib.vcxproj", "G2"),
     ProjectLine(PROJ_UUID, "app", "app.vcxproj", "G3"),
     ProjectLine(CONT_UUID, "extras", "extras", "G3")}

Stages == <<"ProjectConfigurationPlatforms", "NestedProjects">>
StageRank(s) == CHOOSE i \in DOMAIN Stages : Stages[i] = s
PhaseOf(s) == IF s = "NestedProjects" THEN "preSolution" ELSE "postSolution"

\* The index of the last line of kind k, 0 when there is none
LastOf(file, k) ==
    LET hits == {i \in DOMAIN file : file[i].k = k}
    IN IF hits = {} THEN 0 ELSE CHOOSE i \in hits : \A j \in hits : j <= i

CountOf(file, k) == Cardinality({i \in DOMAIN file : file[i].k = k})

\* The lines that may follow the lines read so far in a well-formed file.
\* Projects, dependencies, sections and values come in the order of their
\* identifiers, each at most once.
SlnNextLines(file) ==
    LET last == IF file = <<>> THEN "" ELSE file[Len(file)].k
        lastRank(k) ==
            IF LastOf(file, k) = 0 THEN 0 ELSE Rank(file[LastOf(file, k)].d)
        projects ==
            IF CountOf(file, "Project") >= MaxProjects THEN {}
            ELSE {pl \in ProjectLines : Rank(pl.d) > lastRank("Project")}
        depsHere == Len(file) - LastOf(file, "ProjectSection(ProjectDependencies)")
        deps ==
            IF depsHere >= MaxDeps THEN {}
            ELSE {DepLine(g, g) : g \in
                    {h \in {ProjectIds[i] : i \in DOMAIN ProjectIds} :
                        last # "Dependency" \/ Rank(h) > Rank(file[Len(file)].a)}}
        sections ==
            {GlobalSectionLine(s, PhaseOf(s)) : s \in
                {t \in {Stages[i] : i \in DOMAIN Stages} :
                    LastOf(file, "GlobalSection") = 0
                    \/ StageRank(t) > StageRank(file[LastOf(file, "GlobalSection")].a)}}
        valuesHere == Len(file) - LastOf(file, "GlobalSection")
        values ==
            IF valuesHere >= MaxValues THEN {}
            ELSE {ValueLine(g, ".Debug|x64.ActiveCfg = Debug|x64") : g \in
                    {h \in {"G1", "G2"} :
                        last # "Value" \/ Rank(h) > Rank(file[Len(file)].a)}}
    IN CASE last = "" -> {HeaderText[1]}
         [] last = "Header" ->
                IF Len(file) < Len(HeaderText) THEN {HeaderText[Len(file) + 1]}
                ELSE projects \cup {Keyword("Global")}
         [] last = "Project" -> {Keyword("ProjectSection(ProjectDependencies)"), Keyword("EndProject")}
         [] last \in {"ProjectSection(ProjectDependencies)", "Dependency"} ->
                deps \cup {Keyword("EndProjectSection")}
         [] last = "EndProjectSection" -> {Keyword("EndProject")}
         [] last = "EndProject" -> projects \cup {Keyword("Global")}
         [] last \in {"Global", "EndGlobalSection"} -> sections \cup {Keyword("EndGlobal")}
         [] last \in {"GlobalSection", "Value"} -> values \cup {Keyword("EndGlobalSection")}
         [] OTHER -> {}

\* parse_solution reads one more line
parse_solution_line(line) ==
    /\ spc = "parse"
    /\ ~sp.failed
    /\ slnfile' = Append(slnfile, line)
    /\ sp' = ParseStep(sp, line)
    /\ UNCHANGED <<solndata, targets, targetset, slnout, spc>>
    /\ UNCHANGED notSln

\* The end of the file: return contents
parse_solution_return ==
    /\ spc = "parse"
    /\ slnfile # <<>> /\ slnfile[Len(slnfile)].k = "EndGlobal"
    /\ solndata' = sp.contents
    /\ spc' = "parsed"
    /\ UNCHANGED <<slnfile, sp, targets, targetset, slnout>>
    /\ UNCHANGED notSln

\* write_solution(solution, solndata) on the data as parsed
write_solution ==
    /\ spc = "parsed"
    /\ slnout' = solution_lines(solndata, TRUE)
    /\ spc' = IF KeyError(solndata) THEN "failed" ELSE "written"
    /\ UNCHANGED <<slnfile, sp, solndata, targets, targetset>>
    /\ UNCHANGED notSln

never_zero_check(name) == FALSE

\* section[item]['name'] == 'ZERO_CHECK'
is_zero_check(name) == name = "ZERO_CHECK"

\* The loop over the projects in expand_targets; acc holds targetset,
\* dependencies and uuid, and whether the function returned from the loop
RECURSIVE match_projects(_, _, _)
match_projects(section, target, acc) ==
    IF section = <<>> \/ acc.returned THEN acc
    ELSE LET item == Head(section).key
             info == Head(section).val
         IN IF target = item \/ target = info.name
              THEN IF is_zero_check(info.name)
                     THEN [acc EXCEPT !.returned = TRUE]
                     ELSE match_projects(Tail(section), target,
                            [targetset |-> DictSet(acc.targetset, item,
                                            [path |-> info.path, name |-> info.name,
                                             hook |-> info.hook]),
                             dependencies |-> acc.dependencies \o info.dependencies,
                             uuid |-> item,
                             returned |-> FALSE])
              ELSE match_projects(Tail(section), target, acc)

RECURSIVE expand_targets(_, _, _)
RECURSIVE expand_each(_, _, _)

\* expand_targets(target,targetset,solndata): the targetset it leaves
expand_targets(target, tset, data) ==
    IF "SLNProjects" \notin data.keys THEN tset
    ELSE IF HasKey(tset, target) THEN tset
    ELSE LET found == match_projects(data.SLNProjects, target,
                        [targetset |-> tset, dependencies |-> <<>>,
                         uuid |-> Nil, returned |-> FALSE])
         IN IF found.returned \/ found.uuid = Nil THEN found.targetset
            ELSE expand_each(found.dependencies, found.targetset, data)

\* for elt in list: expand_targets(elt,targetset,solndata)
expand_each(list, tset, data) ==
    IF list = <<>> THEN tset
    ELSE expand_each(Tail(list), expand_targets(Head(list), tset, data), data)

\* guid = item[pos0:pos1]
value_guid(item) == item.a

TargetLists == {<<"lib">>, <<"app", "lib">>, <<"ZERO_CHECK">>}

\* extract_module_projects after its call of parse_solution
extract_module_projects(tgts) ==
    /\ spc = "parsed"
    /\ targets' = tgts
    /\ LET tset == expand_each(tgts, <<>>, solndata)
       IN /\ targetset' = tset
          /\ IF KeyError(solndata)
               THEN /\ spc' = "failed"
                    /\ UNCHANGED <<solndata, slnout>>
               ELSE LET deleteset == DictKeys(solndata.SLNProjects) \ DictKeys(tset)
                        kept == SelectSeq(solndata.SLNProjects,
                                          LAMBDA e : e.key \notin deleteset)
                        projects ==
                            [i \in DOMAIN kept |->
                                [key |-> kept[i].key,
                                 val |-> [kept[i].val EXCEPT !.dependencies =
                                            SelectSeq(@, LAMBDA g : g \notin deleteset)]]]
                        pcp == "ProjectConfigurationPlatforms"
                        filtered ==
                            IF HasKey(solndata.SLNGlobals, pcp)
                              THEN DictSet(solndata.SLNGlobals, pcp,
                                     [DictGet(solndata.SLNGlobals, pcp) EXCEPT !.values =
                                        SelectSeq(@, LAMBDA v : value_guid(v) \notin deleteset)])
                              ELSE solndata.SLNGlobals
                        result == [solndata EXCEPT
                                     !.SLNProjects = projects,
                                     !.SLNGlobals = DictDel(filtered, "NestedProjects")]
                    IN /\ solndata' = result
                       /\ slnout' = solution_lines(result, TRUE)
                       /\ spc' = "extracted"
    /\ UNCHANGED <<slnfile, sp>>
    /\ UNCHANGED notSln

SlnInit ==
    /\ slnfile = <<>>
    /\ sp = SlnStart
    /\ solndata = <<>>
    /\ targets = <<>>
    /\ targetset = <<>>
    /\ slnout = <<>>
    /\ spc = "parse"
    /\ PbxIdle /\ PlaceIdle /\ GrpIdle /\ TgtIdle /\ ExtIdle /\ WinIdle /\ AndIdle /\ OriIdle /\ SrcIdle /\ MkIdle /\ IntIdle

SlnNext ==
    \/ \E line \in SlnNextLines(slnfile) : parse_solution_line(line)
    \/ parse_solution_return
    \/ write_solution
    \/ \E tgts \in TargetLists : extract_module_projects(tgts)

SpecSolution == SlnInit /\ [][SlnNext]_vars

-----------------------------------------------------------------------------
(* The file tree mapper: build_groups (apple.py), build_filters (windows.py) *)

(* A Source File Tree is the sequence of its items in dictionary order; an *)
(* item has a name and is either a directory (dir, with children) or a     *)
(* leaf carrying a platform tag.  A path is the sequence of its segments,  *)
(* so path+'/'+item is Append(path, item).                                 *)

MaxNodes == 3       \* files and directories below the root of a file tree

ItemNames == {"a", "b"}
PlatformTags == {"all", "apple"}

Leaf(name, tag) == [name |-> name, dir |-> FALSE, tag |-> tag, children |-> <<>>]
Directory(name, children) == [name |-> name, dir |-> TRUE, tag |-> "", children |-> children]

\* The file trees with at most n items, the names of the top level in names
RECURSIVE FileTrees(_, _)
FileTrees(n, names) ==
    IF n = 0 THEN {<<>>}
    ELSE {<<>>} \cup UNION {
            {<<Leaf(name, tag)>> \o rest :
                tag \in PlatformTags, rest \in FileTrees(n - 1, names \ {name})}
            \cup UNION {
                {<<Directory(name, sub)>> \o rest :
                    sub \in FileTrees(k - 1, ItemNames),
                    rest \in FileTrees(n - k, names \ {name})} : k \in 1..n}
            : name \in names}

\* UUIDService.getAppleUUID / getWindowsUUID: one identifier per url,
\* different urls give different identifiers
getUUID(dialect, scheme, path) ==
    [prefix |-> "", dialect |-> dialect, scheme |-> scheme, path |-> path]

\* UUIDService.applyPrefix
applyPrefix(prefix, uuid) == [uuid EXCEPT !.prefix = prefix]

subgroup_unnamed(item, entry) == entry

\* result[key] = (item,subresult[1][key][1])
subgroup_named(item, entry) == [name |-> item, children |-> entry.children]

\* for key in subresult[1]: result[key] = ...
RECURSIVE merge_subresult(_, _, _, _)
merge_subresult(result, subresult, subroot, item) ==
    IF subresult = <<>> THEN result
    ELSE LET key == Head(subresult).key
             val == Head(subresult).val
         IN merge_subresult(
                DictSet(result, key,
                        IF key = subroot THEN subgroup_named(item, val) ELSE val),
                Tail(subresult), subroot, item)

RECURSIVE build_tree(_, _, _)
RECURSIVE build_items(_, _, _, _, _)

\* The loop 'for item in filetree'
build_items(dialect, path, tree, kids, result) ==
    IF tree = <<>> THEN [contents |-> kids, result |-> result]
    ELSE LET item == Head(tree).name
         IN IF Head(tree).dir
              THEN LET subresult == build_tree(dialect, Append(path, item),
                                               Head(tree).children)
                   IN build_items(dialect, path, Tail(tree),
                        Append(kids, <<subresult.uuid, item, "group">>),
                        merge_subresult(result, subresult.result, subresult.uuid, item))
              ELSE LET newid == applyPrefix("BA",
                                    getUUID(dialect, "FILE", Append(path, item)))
                   IN build_items(dialect, path, Tail(tree),
                        Append(kids, <<newid, item, Head(tree).tag>>),
                        result)

\* The body shared by build_groups and build_filters; the entry of uuid
\* holds the list contents, which the loop fills
build_tree(dialect, path, tree) ==
    LET uuid == applyPrefix("CD", getUUID(dialect, "GROUP", path))
        built == build_items(dialect, path, tree, <<>>,
                             <<[key |-> uuid, val |-> [name |-> "", children |-> <<>>]]>>)
    IN [uuid |-> uuid,
        result |-> DictSet(built.result, uuid,
                           [DictGet(built.result, uuid) EXCEPT !.children = built.contents])]

build_groups(path, tree) == build_tree("apple", path, tree)

build_filters(path, tree) == build_tree("windows", path, tree)

\* populate_sources: uuid, result = build_groups(sourcedir,filetree,uuidsvc)
call_build_groups ==
    /\ gpc = "start"
    /\ grouptable' = build_groups(sourcedir, source_tree)
    /\ gpc' = "groups"
    /\ UNCHANGED <<source_tree, sourcedir>>
    /\ UNCHANGED notGrp

\* The same for the filters of a Visual Studio project
call_build_filters ==
    /\ gpc = "start"
    /\ grouptable' = build_filters(sourcedir, source_tree)
    /\ gpc' = "filters"
    /\ UNCHANGED <<source_tree, sourcedir>>
    /\ UNCHANGED notGrp

GrpInit ==
    /\ source_tree \in FileTrees(MaxNodes, ItemNames)
    /\ sourcedir \in {<<"src">>, <<"..", "src">>}
    /\ grouptable = <<>>
    /\ gpc = "start"
    /\ PbxIdle /\ PlaceIdle /\ SlnIdle /\ TgtIdle /\ ExtIdle /\ WinIdle /\ AndIdle /\ OriIdle /\ SrcIdle /\ MkIdle /\ IntIdle

GrpNext == call_build_groups \/ call_build_filters

SpecGroups == GrpInit /\ [][GrpNext]_vars

-----------------------------------------------------------------------------
(* Target discovery in the Xcode project of a module: expand_targets and   *)
(* its call in configure_external (apple.py)                               *)

(* The text of an object block is the sequence of the tokens the code      *)
(* looks for or cuts out; a target name is the sequence of its characters, *)
(* so that 'target in line' is the search for an infix.                    *)

MaxTargets == 3     \* native targets of the module's project
MaxEdges   == 2     \* target dependencies of the module's project

TargetNames == << <<"A">>, <<"A", "B">>, <<"C">>, <<"D">> >>
RefIds      == <<"R1", "R2", "R3", "R4">>
TargetIds   == <<"T1", "T2", "T3", "T4">>
DepIds      == << <<"D11", "D12", "D13", "D14">>, <<"D21", "D22", "D23", "D24">>,
                  <<"D31", "D32", "D33", "D34">>, <<"D41", "D42", "D43", "D44">> >>

\* x in y, for two texts
In(x, y) == \E i \in 0..(Len(y) - Len(x)) : SubSeq(y, i + 1, i + Len(x)) = x

\* The library a target builds
Product(i) == <<"lib">> \o TargetNames[i] \o <<".a">>

\* '<uuid> /* <name> */ = {isa = PBXFileReference; ... path = <name>;
\*  sourceTree = BUILT_PRODUCTS_DIR; };'
FileReferenceText(ref) ==
    <<ref.uuid, "/*">> \o ref.name \o <<"*/", "path">> \o ref.path
        \o <<";", "BUILT_PRODUCTS_DIR">>

\* '<uuid> /* <name> */ = {isa = PBXNativeTarget; ... dependencies = ( ... );
\*  name = <name>; ... productReference = <ref> ...; };'
NativeTargetText(item) ==
    <<item.uuid, "/*">> \o item.name \o <<"*/", "dependencies = (">>
        \o item.dependencies
        \o <<")", "productReference = ", item.productReference>>

\* '<uuid> /* PBXTargetDependency */ = {isa = PBXTargetDependency;
\*  target = <target> ...; targetProxy = ...; };'
TargetDependencyText(item) ==
    <<item.uuid, "/*", "PBXTargetDependency", "*/", "target =", item.target>>

Orders(n) == {f \in [1..n -> 1..n] : \A i, j \in 1..n : f[i] = f[j] => i = j}

\* The dependencies of n targets, those of a target on itself included
EdgeSets(n) ==
    {E \in SUBSET ((1..n) \X (1..n)) : Cardinality(E) <= MaxEdges}

\* The targets i depends on, in order
RECURSIVE DepsOf(_, _, _)
DepsOf(i, E, j) ==
    IF j = 0 THEN <<>>
    ELSE DepsOf(i, E, j - 1) \o (IF <<i, j>> \in E THEN <<j>> ELSE <<>>)

\* The sections of the project with targets 1..n, the built libraries listed
\* in the order order and the dependencies E
ModuleProject(n, order, E) ==
    [PBXFileReference |->
        [pos \in 1..n |-> [uuid |-> RefIds[order[pos]], name |-> Product(order[pos]),
                           path |-> Product(order[pos])]],
     PBXNativeTarget |->
        [i \in 1..n |-> [uuid |-> TargetIds[i], name |-> TargetNames[i],
                         productReference |-> RefIds[i],
                         dependencies |->
                            [k \in DOMAIN DepsOf(i, E, n) |-> DepIds[i][DepsOf(i, E, n)[k]]]]],
     PBXTargetDependency |->
        Flatten([i \in 1..n |->
            [k \in DOMAIN DepsOf(i, E, n) |->
                [uuid |-> DepIds[i][DepsOf(i, E, n)[k]],
                 target |-> TargetIds[DepsOf(i, E, n)[k]]]]])]

\* 'BUILT_PRODUCTS_DIR' in line and target in line
reference_matches(target, ref) ==
    /\ In(<<"BUILT_PRODUCTS_DIR">>, FileReferenceText(ref))
    /\ In(target, FileReferenceText(ref))

\* candidates: the dependencies of the targets that build uuid
RECURSIVE find_candidates(_, _)
find_candidates(section, uuid) ==
    IF section = <<>> THEN <<>>
    ELSE (IF /\ In(<<"productReference = ", uuid>>, NativeTargetText(Head(section)))
             /\ In(<<"dependencies = (">>, NativeTargetText(Head(section)))
            THEN Head(section).dependencies ELSE <<>>)
         \o find_candidates(Tail(section), uuid)

\* for item in section: for <x> in list: if <x> in item: collect item.<field>
RECURSIVE collect_mentions(_, _, _, _)
collect_mentions(texts, fields, list, k) ==
    IF texts = <<>> THEN <<>>
    ELSE (IF k > Len(list) THEN collect_mentions(Tail(texts), Tail(fields), list, 1)
          ELSE (IF In(<<list[k]>>, Head(texts)) THEN <<Head(fields)>> ELSE <<>>)
               \o collect_mentions(texts, fields, list, k + 1))

RECURSIVE apple_expand_targets(_, _, _)
RECURSIVE apple_expand_each(_, _, _)

\* expand_targets(target,targetset,pbxproj) of apple.py: the targetset it leaves
apple_expand_targets(target, tset, proj) ==
    LET refs == proj.PBXFileReference
        hits == {pos \in DOMAIN refs : reference_matches(target, refs[pos])}
    IN IF hits = {} THEN tset
       ELSE LET pos  == CHOOSE i \in hits : \A j \in hits : i <= j
                uuid == refs[pos].uuid
                candidates == find_candidates(proj.PBXNativeTarget, uuid)
                identified ==
                    collect_mentions(
                        [i \in DOMAIN proj.PBXTargetDependency |->
                            TargetDependencyText(proj.PBXTargetDependency[i])],
                        [i \in DOMAIN proj.PBXTargetDependency |->
                            proj.PBXTargetDependency[i].target],
                        candidates, 1)
                duuids ==
                    collect_mentions(
                        [i \in DOMAIN proj.PBXNativeTarget |->
                            NativeTargetText(proj.PBXNativeTarget[i])],
                        [i \in DOMAIN proj.PBXNativeTarget |->
                            proj.PBXNativeTarget[i].productReference],
                        identified, 1)
            IN apple_expand_each(duuids,
                                 DictSet(tset, uuid, <<refs[pos].name, refs[pos].path>>),
                                 proj)

\* if duuid and not duuid in targetset: expand_targets(duuid,targetset,pbxproj)
apple_expand_each(duuids, tset, proj) ==
    IF duuids = <<>> THEN tset
    ELSE apple_expand_each(Tail(duuids),
            IF HasKey(tset, Head(duuids)) THEN tset
            ELSE apple_expand_targets(<<Head(duuids)>>, tset, proj),
            proj)

\* for target in module['targets']: expand_targets(target,targetset,pbxproj)
RECURSIVE expand_roots(_, _, _)
expand_roots(roots, tset, proj) ==
    IF roots = <<>> THEN tset
    ELSE expand_roots(Tail(roots), apple_expand_targets(Head(roots), tset, proj), proj)

\* The last loop of expand_targets: the product references of the targets
\* that the target building uuid depends on
dependency_products(uuid, proj) ==
    LET candidates == find_candidates(proj.PBXNativeTarget, uuid)
        identified ==
            collect_mentions(
                [i \in DOMAIN proj.PBXTargetDependency |->
                    TargetDependencyText(proj.PBXTargetDependency[i])],
                [i \in DOMAIN proj.PBXTargetDependency |->
                    proj.PBXTargetDependency[i].target],
                candidates, 1)
    IN collect_mentions(
           [i \in DOMAIN proj.PBXNativeTarget |->
               NativeTargetText(proj.PBXNativeTarget[i])],
           [i \in DOMAIN proj.PBXNativeTarget |->
               proj.PBXNativeTarget[i].productReference],
           identified, 1)

never_in_targetset(duuid, calls) == FALSE

\* duuid in targetset, the targetset holding the reference of every call
in_targetset(duuid, calls) == Contains(calls, duuid)

\* A discovery that makes more calls than this does not return: with one
\* call per target there are MaxTargets
CallLimit == MaxTargets + 1

RECURSIVE expand_targets_calls(_, _, _)
RECURSIVE expand_each_calls(_, _, _)

\* expand_targets(target,targetset,pbxproj): the references of the calls that
\* found one, this call's first, in the order the calls are made
expand_targets_calls(target, calls, proj) ==
    LET refs == proj.PBXFileReference
        hits == {pos \in DOMAIN refs : reference_matches(target, refs[pos])}
        uuid == refs[CHOOSE i \in hits : \A j \in hits : i <= j].uuid
    IN IF hits = {} \/ Len(calls) >= CallLimit THEN calls
       ELSE expand_each_calls(dependency_products(uuid, proj), Append(calls, uuid), proj)

expand_each_calls(duuids, calls, proj) ==
    IF duuids = <<>> THEN calls
    ELSE expand_each_calls(Tail(duuids),
            IF in_targetset(Head(duuids), calls) THEN calls
            ELSE expand_targets_calls(<<Head(duuids)>>, calls, proj),
            proj)

\* configure_external, as far as the target set goes
configure_external ==
    /\ tpc = "start"
    /\ xtargets' = expand_roots(xroots, <<>>, xproj)
    /\ tpc' = "done"
    /\ UNCHANGED <<xproj, xroots>>
    /\ UNCHANGED notTgt

TgtInit ==
    /\ xproj \in {ModuleProject(MaxTargets, order, E) :
                    order \in Orders(MaxTargets), E \in EdgeSets(MaxTargets)}
    /\ xroots \in {<<TargetNames[i]>> : i \in 1..MaxTargets}
    /\ xtargets = <<>>
    /\ tpc = "start"
    /\ PbxIdle /\ PlaceIdle /\ SlnIdle /\ GrpIdle /\ ExtIdle /\ WinIdle /\ AndIdle /\ OriIdle /\ SrcIdle /\ MkIdle /\ IntIdle

TgtNext == configure_external

SpecTargets == TgtInit /\ [][TgtNext]_vars

-----------------------------------------------------------------------------
(* External modules of the Xcode project: add_macos_externals,             *)
(* add_ios_externals, configure_external, link_external, link_frameworks   *)
(* (apple.py)                                                              *)

(* The host project is a record of the lists the linker touches; an entry  *)
(* of a list is the record of the identifiers and names formatted into it. *)
(* Names and paths are token sequences, as in the module's project.        *)

MaxModules == 2     \* entries of config['external']

MAC_TARGET == "EB0F3C9527FB9DCB0037CC66"
IOS_TARGET == "EBC7AEC127FBB41F001F1467"

\* The template before any module is linked: two native targets with their
\* frameworks build phases and the two framework groups
HostTemplate ==
    [PBXFileReference |-> <<>>, PBXProject |-> <<>>, PBXGroup |-> <<>>,
     PBXContainerItemProxy |-> <<>>, PBXReferenceProxy |-> <<>>, PBXBuildFile |-> <<>>,
     maingroup |-> <<>>,
     PBXNativeTarget |->
        <<[text |-> <<MAC_TARGET, "buildPhases = (", "<nl>", "S1", "/* Sources */", "<nl>",
                      "P1", "/* Frameworks */", "<nl>", ");">>],
          [text |-> <<IOS_TARGET, "buildPhases = (", "<nl>", "S2", "/* Sources */", "<nl>",
                      "P2", "/* Frameworks */", "<nl>", ");">>]>>,
     PBXFrameworksBuildPhase |-> <<[uuid |-> "P1", files |-> <<>>],
                                   [uuid |-> "P2", files |-> <<>>]>>,
     frameworks |-> <<[platform |-> "macos", children |-> << <<"Cocoa", ".framework">> >>],
                      [platform |-> "ios", children |-> <<>>]>>]

\* configure_external: the link information of a module for one platform
configure_libraries(index, module, platform, frameworks) ==
    LET suffix  == IF platform = "macos" THEN "-mac" ELSE "-ios"
        project == <<platform, index, "module", suffix, ".xcodeproj">>
        tset    == expand_roots(module.targets, <<>>, module.project)
    IN [root |-> [name |-> index, file |-> project,
                  project |-> applyPrefix("CA", getUUID("apple", "PROJECT", project)),
                  container |-> applyPrefix("CB", getUUID("apple", "CONTAINER", project)),
                  frameworks |-> frameworks],
        libs |-> [i \in DOMAIN tset |->
            LET name    == tset[i].val[1]
                path    == tset[i].val[2]
                newname == Append(name, suffix)
                newpath == SubSeq(path, 1, Len(path) - 1) \o <<suffix, path[Len(path)]>>
            IN [key |-> name, name |-> newname, path |-> newpath,
                external |-> tset[i].key,
                file |-> applyPrefix("CC", getUUID("apple", "LIBRARY", newname)),
                proxy |-> applyPrefix("CD", getUUID("apple", "PROXY", newname)),
                container |-> applyPrefix("CE", getUUID("apple", "CONTAINER", newname))]]]

\* The identifier in front of '/* Frameworks */' in the block of the native
\* target that holds target; '' when no block holds it
frameworks_phase(host, target) ==
    LET hits == {i \in DOMAIN host.PBXNativeTarget :
                    In(<<target>>, host.PBXNativeTarget[i].text)}
    IN IF hits = {} THEN <<>>
       ELSE LET text == host.PBXNativeTarget[CHOOSE i \in hits : \A j \in hits : j <= i].text
                pos0 == Find(text, "/* Frameworks */", 1)
            IN IF pos0 = 0 THEN <<text[Len(text)]>> ELSE <<text[pos0 - 1]>>

any_phase(pbxframeworks, phase) == TRUE

\* pbxframeworks in line
in_phase(pbxframeworks, phase) == In(pbxframeworks, <<phase.uuid, "/* Frameworks */">>)

\* link_external(pbxproj,libraries,target)
link_external(host, libraries, target) ==
    LET root == libraries.root
        libs == libraries.libs
        pbxlink == [i \in DOMAIN libs |-> [uuid |-> libs[i].file, name |-> libs[i].path]]
        pbxframeworks == frameworks_phase(host, target)
    IN [host EXCEPT
          !.PBXFileReference = Append(@, [uuid |-> root.project, name |-> root.file]),
          !.maingroup = Append(@, root.project),
          !.PBXProject = <<[ProductGroup |-> root.container, ProjectRef |-> root.project]>> \o @,
          !.PBXContainerItemProxy = @ \o
              [i \in DOMAIN libs |-> [uuid |-> libs[i].container, portal |-> root.project,
                                      remote |-> libs[i].external, info |-> libs[i].name]],
          !.PBXReferenceProxy = @ \o
              [i \in DOMAIN libs |-> [uuid |-> libs[i].proxy, path |-> libs[i].path,
                                      remoteRef |-> libs[i].container]],
          !.PBXBuildFile = @ \o
              [i \in DOMAIN libs |-> [uuid |-> libs[i].file, name |-> libs[i].path,
                                      fileRef |-> libs[i].proxy]],
          !.PBXGroup = Append(@, [uuid |-> root.container,
                                  children |-> [i \in DOMAIN libs |-> libs[i].proxy]]),
          !.PBXFrameworksBuildPhase =
              [pos \in DOMAIN @ |->
                  IF in_phase(pbxframeworks, @[pos])
                    THEN [@[pos] EXCEPT !.files = pbxlink \o @]
                    ELSE @[pos]]]

\* The names link_frameworks puts on the eliminate list, in order
RECURSIVE eliminated(_, _)
eliminated(frameworks, grouptext) ==
    IF frameworks = <<>> THEN <<>>
    ELSE (IF In(Head(frameworks), grouptext) THEN <<Head(frameworks)>> ELSE <<>>)
         \o (IF Head(frameworks)[Len(Head(frameworks))] \notin {".tbd", ".framework"}
               THEN <<Head(frameworks)>> ELSE <<>>)
         \o eliminated(Tail(frameworks), grouptext)

\* link_frameworks(pbxproj,libraries,target): the host it leaves, and whether
\* 'del frameworks[name]' raised KeyError on a name listed twice
link_frameworks(host, libraries, target) ==
    LET platform == IF target = MAC_TARGET THEN "macos" ELSE "ios"
        idx == CHOOSE i \in DOMAIN host.frameworks : host.frameworks[i].platform = platform
        eliminate == eliminated(libraries.root.frameworks,
                                <<platform>> \o Flatten(host.frameworks[idx].children))
        frameworks == SelectSeq(libraries.root.frameworks,
                                LAMBDA name : \A k \in DOMAIN eliminate : eliminate[k] # name)
        uuids(scheme, prefix) ==
            [i \in DOMAIN frameworks |->
                [uuid |-> applyPrefix(prefix, getUUID("apple", scheme, frameworks[i])),
                 name |-> frameworks[i]]]
        frwkuuid == frameworks_phase(host, target)
    IN IF libraries.root.frameworks = <<>> THEN [host |-> host, failed |-> FALSE]
       ELSE IF \E j, k \in DOMAIN eliminate : j # k /\ eliminate[j] = eliminate[k]
         THEN [host |-> host, failed |-> TRUE]
       ELSE [failed |-> FALSE,
             host |-> [host EXCEPT
                !.frameworks =
                    [pos \in DOMAIN @ |->
                        IF pos = idx
                          THEN [@[pos] EXCEPT !.children = @ \o frameworks \o frameworks]
                          ELSE @[pos]],
                !.PBXFileReference = @ \o uuids("REFERENCE", "DB"),
                !.PBXBuildFile = @ \o uuids("FRAMEWORK", "DA"),
                !.PBXFrameworksBuildPhase =
                    [pos \in DOMAIN @ |->
                        IF In(frwkuuid, <<@[pos].uuid, "/* Frameworks */">>)
                          THEN [@[pos] EXCEPT !.files = @ \o uuids("FRAMEWORK", "DA")]
                          ELSE @[pos]]]]

\* One pass of the loop of add_macos_externals, or of add_ios_externals once
\* that loop is through: the generator runs and the module is linked. The
\* working directory is <<>> for the directory the function was entered in
\* and <<platform, index>> for a module's directory: each pass changes into
\* its module's directory and the function changes back after the loop
add_external(outcome, frameworks) ==
    /\ xstep.pass \in {"macos", "ios"}
    /\ LET module == externals[xstep.index]
           target == IF xstep.pass = "macos" THEN MAC_TARGET ELSE IOS_TARGET
           libraries == configure_libraries(xstep.index, module, xstep.pass, frameworks)
           linked == link_frameworks(link_external(pbxproj, libraries, target), libraries, target)
           last == xstep.index = Len(externals)
           itemdir == <<xstep.pass, xstep.index>>
       IN /\ xprev' = pbxproj
          /\ xlast' = [index |-> xstep.index, pass |-> xstep.pass, outcome |-> outcome,
                       matched |-> libraries.libs # <<>>]
          /\ IF outcome.found = 0
               THEN pbxproj' = pbxproj
               ELSE pbxproj' = linked.host
          /\ xstep' = IF outcome.found # 0 /\ linked.failed
                        THEN [pass |-> "failed", index |-> 0, cwd |-> itemdir]
                      ELSE IF ~last THEN [xstep EXCEPT !.index = @ + 1, !.cwd = itemdir]
                      ELSE IF xstep.pass = "macos" THEN [pass |-> "ios", index |-> 1, cwd |-> <<>>]
                      ELSE [pass |-> "done", index |-> 0, cwd |-> <<>>]
    /\ UNCHANGED externals
    /\ UNCHANGED notExt

\* config['external'] holds modules of one root target each, of which Z names
\* no target, and the project the generator makes of it (A depends on C)
ExtInit ==
    /\ externals \in SeqsUpTo({[targets |-> <<r>>,
                                 project |-> ModuleProject(3, [i \in 1..3 |-> i], {<<1, 3>>})] :
                                    r \in {"A", "Z"}}, MaxModules) \ {<<>>}
    /\ pbxproj = HostTemplate
    /\ xprev = HostTemplate
    /\ xlast = <<>>
    /\ xstep = [pass |-> "macos", index |-> 1, cwd |-> <<>>]
    /\ PbxIdle /\ PlaceIdle /\ SlnIdle /\ GrpIdle /\ TgtIdle /\ WinIdle /\ AndIdle /\ OriIdle /\ SrcIdle /\ MkIdle /\ IntIdle

\* The generator leaves an exit status, which no one reads, and a number of
\* *.xcodeproj directories; extract_frameworks finds the frameworks of the
\* module's CMakeCache.txt
ExtNext ==
    \E outcome \in [exit : {"ok", "error"}, found : 0..2] :
        \E frameworks \in (IF outcome.found = 0 THEN {<<>>}
                            ELSE {<<>>, << <<"Metal", ".framework">> >>, << <<"Cocoa">> >>}) :
            add_external(outcome, frameworks)

SpecExternals == ExtInit /\ [][ExtNext]_vars

-----------------------------------------------------------------------------
(* The configurations of the Visual Studio project: add_externals,         *)
(* expand_global_configurations, expand_build_configurations and the part  *)
(* of make that chooses between them (windows.py)                          *)

(* The application project is the record of the three placeholders of each *)
(* of its ItemDefinitionGroups, its project references and the modules of  *)
(* its solution. A joined list 'a;b;' is the sequence of its items.        *)

\* The application project of the template, with its placeholders
VcxprojTemplate ==
    [groups |-> [g \in 1..2 |->
        [arch |-> <<"x64", "win32">>[g], includes |-> <<"__INCLUDE_DIR__">>,
         defines |-> <<"__CUGL_DEFINES__">>, depends |-> <<"__CUGL_DEPENDS__">>]],
     references |-> <<>>]

\* add_externals(config,projdir): the configuration it leaves, the modules it
\* integrates into the solution, what it returns and the number of
\* generators it ran; found[i] is the number of *.sln files of module i
win_add_externals(config, dev, found) ==
    IF "external" \notin config.keys \/ dev # "windows"
      THEN [config |-> config, integrated |-> <<>>, return |-> FALSE, invoked |-> 0]
      ELSE LET configured == SelectSeq([i \in DOMAIN config.external |-> i],
                                       LAMBDA i : found[i] # 0)
               solved == [k \in DOMAIN configured |-> config.external[configured[k]].name]
           IN [config |-> IF solved = <<>> THEN config
                          ELSE [config EXCEPT
                                  !.keys = @ \cup {"builds"},
                                  !.builds =
                                     [includes |-> solved,
                                      defines |-> Flatten([k \in DOMAIN configured |->
                                                     config.external[configured[k]].defines]),
                                      dependencies |-> solved]],
               integrated |-> solved, return |-> TRUE,
               invoked |-> Len(config.external)]

\* expand_global_configurations(config,project): one replace of the three
\* placeholders over the whole file; allincludes and alldefines are names
\* the function does not define
expand_global_configurations(config, vcxproj) ==
    IF config.include_dict # <<>> \/ config.define_dict # <<>>
      THEN [raised |-> "NameError", vcxproj |-> vcxproj]
      ELSE [raised |-> Nil,
            vcxproj |-> [vcxproj EXCEPT !.groups =
                [g \in DOMAIN @ |-> [arch |-> @[g].arch, includes |-> <<>>,
                                     defines |-> <<>>, depends |-> <<>>]]]]

\* expand_build_configurations(config,project)
expand_build_configurations(config, vcxproj, integrated) ==
    IF "builds" \notin config.keys
      THEN [raised |-> "KeyError", vcxproj |-> vcxproj]
      ELSE LET builddata == config.builds
           IN [raised |-> Nil,
               vcxproj |-> [vcxproj EXCEPT
                  !.groups = [g \in DOMAIN @ |->
                     [arch |-> @[g].arch,
                      includes |-> IF @[g].arch = "x64" /\ builddata.includes # <<>>
                                     THEN config.include_dict \o builddata.includes
                                     ELSE config.include_dict,
                      defines |-> IF @[g].arch = "x64" /\ builddata.defines # <<>>
                                     THEN config.define_dict \o builddata.defines
                                     ELSE <<>>,
                      depends |-> IF @[g].arch = "x64" /\ builddata.dependencies # <<>>
                                     THEN builddata.dependencies
                                     ELSE <<>>]],
                  !.references = @ \o integrated]]

\* make(config) from add_externals on: what it leaves of the project and
\* whether it raised
make_result(config, dev, found, vcxproj) ==
    LET added == win_add_externals(config, dev, found)
        expanded == IF added.return
                      THEN expand_build_configurations(added.config, vcxproj, added.integrated)
                      ELSE expand_global_configurations(added.config, vcxproj)
    IN [config |-> added.config, invoked |-> added.invoked, found |-> found,
        raised |-> expanded.raised,
        vcxproj |-> expanded.vcxproj,
        solution |-> added.integrated]

windows_make ==
    /\ wmake = <<>>
    /\ \E found \in [DOMAIN wconfig.external -> 0..2] :
          wmake' = make_result(wconfig, wdev, found, wproject)
    /\ wconfig' = wmake'.config
    /\ wproject' = wmake'.vcxproj
    /\ UNCHANGED wdev
    /\ UNCHANGED notWin

\* The project as reassign_vcxproj, populate_sources and filter_modules
\* leave it, with config['windows'] holding the uuid alone
WinInit ==
    /\ wconfig \in [keys : {{}, {"external"}},
                    external : SeqsUpTo([name : 1..MaxModules,
                                         defines : {<<>>, <<"MODULE">>}], MaxModules),
                    include_dict : {<<>>, <<"include">>},
                    define_dict : {<<>>, <<"DEFINE">>},
                    builds : {[includes |-> <<>>, defines |-> <<>>, dependencies |-> <<>>]}]
    /\ "external" \notin wconfig.keys => wconfig.external = <<>>
    /\ \A i, j \in DOMAIN wconfig.external :
          i # j => wconfig.external[i].name # wconfig.external[j].name
    /\ wdev \in {"windows", "macos", "linux"}
    /\ wproject = VcxprojTemplate
    /\ wmake = <<>>
    /\ PbxIdle /\ PlaceIdle /\ SlnIdle /\ GrpIdle /\ TgtIdle /\ ExtIdle /\ AndIdle /\ OriIdle /\ SrcIdle /\ MkIdle /\ IntIdle

SpecWindows == WinInit /\ [][windows_make]_vars

-----------------------------------------------------------------------------
(* The steps of make (android.py): each checks the keys it requires with   *)
(* util.check_config_keys and then rewrites its files                      *)

MaxMissing == 2     \* keys the configuration lacks

\* The functions make calls, in order, with the entries each one checks
AndroidMake ==
    <<[step |-> "place_project", entries |-> {"root", "build", "camel", "appid"}],
      [step |-> "config_settings",
       entries |-> {"camel", "appid", "assets", "orientation", "build_to_root"}],
      [step |-> "config_ndkmake", entries |-> {"sources", "build_to_root", "build_to_cugl"}],
      [step |-> "config_cmake", entries |-> {"sources", "build_to_root", "build_to_cugl"}],
      [step |-> "config_modules", entries |-> {"build", "build_to_project"}]>>

\* One call of make: check_config_keys raises when an entry is missing,
\* otherwise the function clears, copies, moves or rewrites its files
android_step ==
    /\ astep \in DOMAIN AndroidMake
    /\ araised = FALSE
    /\ IF AndroidMake[astep].entries \subseteq akeys
         THEN /\ amutated' = Append(amutated, AndroidMake[astep].step)
              /\ astep' = astep + 1
              /\ UNCHANGED araised
         ELSE /\ araised' = TRUE
              /\ UNCHANGED <<amutated, astep>>
    /\ UNCHANGED akeys
    /\ UNCHANGED notAnd

AndInit ==
    /\ \E missing \in SUBSET (UNION {AndroidMake[i].entries : i \in DOMAIN AndroidMake}) :
          /\ Cardinality(missing) <= MaxMissing
          /\ akeys = (UNION {AndroidMake[i].entries : i \in DOMAIN AndroidMake}) \ missing
    /\ astep = 1
    /\ amutated = <<>>
    /\ araised = FALSE
    /\ PbxIdle /\ PlaceIdle /\ SlnIdle /\ GrpIdle /\ TgtIdle /\ ExtIdle /\ WinIdle /\ OriIdle /\ SrcIdle /\ MkIdle /\ IntIdle

SpecAndroid == AndInit /\ [][android_step]_vars

-----------------------------------------------------------------------------
(* determine_orientation (apple.py, android.py). A setting is the sequence *)
(* of its words and hyphens; an Apple value is the sequence of the         *)
(* orientations it lists, within quotes when there is more than one.       *)

MaxTokens == 3      \* words and hyphens of an orientation setting

apple_orientation_default(orientation) == <<"UIInterfaceOrientationLandscapeRight">>

\* determine_orientation(orientation) of apple.py
apple_determine_orientation(orientation) ==
    CASE orientation = <<"portrait">> -> <<"UIInterfaceOrientationPortrait">>
      [] orientation = <<"landscape">> -> <<"UIInterfaceOrientationLandscapeRight">>
      [] orientation = <<"portrait", "-", "flipped">> ->
            <<"UIInterfaceOrientationPortraitUpsideDown">>
      [] orientation = <<"landscape", "-", "flipped">> ->
            <<"UIInterfaceOrientationLandscapeLeft">>
      [] orientation = <<"portrait", "-", "either">> ->
            <<"\"", "UIInterfaceOrientationPortrait",
              "UIInterfaceOrientationPortraitUpsideDown", "\"">>
      [] orientation = <<"landscape", "-", "either">> ->
            <<"\"", "UIInterfaceOrientationLandscapeRight",
              "UIInterfaceOrientationLandscapeLeft", "\"">>
      [] orientation = <<"multidirectional">> ->
            <<"\"", "UIInterfaceOrientationPortrait",
              "UIInterfaceOrientationLandscapeRight", "\"">>
      [] orientation = <<"omnidirectional">> ->
            <<"\"", "UIInterfaceOrientationPortrait", "UIInterfaceOrientationLandscapeRight",
              "UIInterfaceOrientationLandscapeLeft",
              "UIInterfaceOrientationPortraitUpsideDown", "\"">>
      [] OTHER -> <<"UIInterfaceOrientationLandscapeRight">>

\* determine_orientation(orientation) of android.py
android_determine_orientation(orientation) ==
    CASE orientation = <<"portrait">> -> "portrait"
      [] orientation = <<"landscape">> -> "landscape"
      [] orientation = <<"portrait", "-", "flipped">> -> "reversePortrait"
      [] orientation = <<"landscape", "-", "flipped">> -> "reverseLandscape"
      [] orientation = <<"portrait", "-", "either">> -> "sensorPortrait"
      [] orientation = <<"landscape", "-", "either">> -> "sensorLandscape"
      [] orientation = <<"multidirectional">> -> "sensor"
      [] orientation = <<"omnidirectional">> -> "fullSensor"
      [] OTHER -> "unspecified"

\* assign_orientation of apple.py and config_settings of android.py look up
\* config['orientation']
determine_orientation ==
    /\ oapple = <<>>
    /\ oapple' = apple_determine_orientation(osetting)
    /\ oandroid' = android_determine_orientation(osetting)
    /\ UNCHANGED osetting
    /\ UNCHANGED notOri

OriInit ==
    /\ osetting \in SeqsUpTo({"portrait", "landscape", "-", "flipped", "either",
                              "multidirectional", "omnidirectional"}, MaxTokens)
    /\ oapple = <<>>
    /\ oandroid = ""
    /\ PbxIdle /\ PlaceIdle /\ SlnIdle /\ GrpIdle /\ TgtIdle /\ ExtIdle /\ WinIdle /\ AndIdle /\ SrcIdle /\ MkIdle /\ IntIdle

SpecOrientation == OriInit /\ [][determine_orientation]_vars

-----------------------------------------------------------------------------
(* The compiled sources of a project: populate_sources (apple.py),         *)
(* populate_sources and expand_sources (windows.py), config_ndkmake and    *)
(* expand_sources (android.py). A file name is the record of its stem and  *)
(* its extension, a path the sequence of its names.                        *)

MaxFiles == 2       \* entries of the top level of config['source_tree']

SOURCE_EXT(backend) ==
    CASE backend = "apple" ->
            {".cpp", ".c", ".cc", ".cxx", ".m", ".mm", ".asm", ".asmx", ".swift"}
      [] backend = "windows" ->
            {".cpp", ".c", ".cc", ".cxx", ".m", ".mm", ".def", ".odl", ".idl", ".hpj",
             ".bat", ".asm", ".asmx"}
      [] backend = "android" -> {".cpp", ".c", ".cc", ".cxx", ".asm", ".asmx"}

\* The build files populate_sources of apple.py makes for the two targets,
\* each named by the path of the file it refers to
apple_populate_sources(path, tree) ==
    LET result == build_groups(path, tree).result
        files == Flatten([k \in DOMAIN result |->
                    SelectSeq(result[k].val.children, LAMBDA item : item[3] # "group")])
        refs(tags) ==
            LET chosen == SelectSeq(files, LAMBDA item :
                              item[2].ext \in SOURCE_EXT("apple") /\ item[3] \in tags)
            IN [i \in DOMAIN chosen |-> chosen[i][1].path]
    IN [macos |-> refs({"all", "apple", "macos"}), ios |-> refs({"all", "apple", "ios"})]

\* expand_sources(path, uuid, files) of windows.py, over the children
\* files[uuid][1]: the paths of the ClCompile entries
RECURSIVE windows_expand_sources(_, _, _)
windows_expand_sources(path, kids, files) ==
    IF kids = <<>> THEN <<>>
    ELSE LET entry == Head(kids)
         IN (IF entry[3] \in {"all", "windows"} /\ entry[2].ext \in SOURCE_EXT("windows")
               THEN <<Append(path, entry[2])>>
             ELSE IF entry[3] = "group"
               THEN windows_expand_sources(Append(path, entry[2]),
                                           DictGet(files, entry[1]).children, files)
             ELSE <<>>)
            \o windows_expand_sources(path, Tail(kids), files)

\* expand_sources(path, filetree) of android.py: the paths of the makefile
RECURSIVE android_expand_sources(_, _)
android_expand_sources(path, tree) ==
    IF tree = <<>> THEN <<>>
    ELSE (IF Head(tree).dir
            THEN android_expand_sources(Append(path, Head(tree).name), Head(tree).children)
          ELSE IF Head(tree).tag \in {"all", "android"}
                  /\ Head(tree).name.ext \in SOURCE_EXT("android")
            THEN <<Append(path, Head(tree).name)>>
          ELSE <<>>)
         \o android_expand_sources(path, Tail(tree))

\* populate_sources / config_ndkmake: a tree of one key is replaced by the
\* value of the key, which the walk then indexes by name (TypeError when
\* the value is the tag of a file), and the key goes into the root directory
populate_sources ==
    /\ compiled = <<>>
    /\ \E backend \in {"apple", "windows", "android"} :
        LET single == Len(srctree) = 1
            root == <<[stem |-> backend, ext |-> ""]>>
                        \o (IF single THEN <<srctree[1].name>> ELSE <<>>)
            tree == IF single THEN srctree[1].children ELSE srctree
        IN compiled' =
            IF single /\ ~srctree[1].dir
              THEN [backend |-> backend, raised |-> TRUE, entries |-> <<>>]
              ELSE [backend |-> backend, raised |-> FALSE,
                    entries |->
                      CASE backend = "apple" -> apple_populate_sources(root, tree)
                        [] backend = "windows" ->
                            LET built == build_filters(root, tree)
                            IN [windows |-> windows_expand_sources(root,
                                    DictGet(built.result, built.uuid).children, built.result)]
                        [] backend = "android" ->
                            [android |-> android_expand_sources(root, tree)]]
    /\ UNCHANGED srctree
    /\ UNCHANGED notSrc

\* The source trees of files f.cpp, f.h and f.m under every tag, at the top
\* or in a directory d
SrcInit ==
    /\ LET files == {Leaf([stem |-> "f", ext |-> e], tag) :
                        e \in {".cpp", ".h", ".m"},
                        tag \in {"all", "android", "apple", "macos", "ios", "windows", "cmake"}}
           items == files \cup {Directory([stem |-> "d", ext |-> ""], sub) :
                                    sub \in SeqsUpTo(files, MaxFiles - 1)}
       IN /\ srctree \in SeqsUpTo(items, MaxFiles)
          /\ \A i, j \in DOMAIN srctree : i # j => srctree[i].name # srctree[j].name
    /\ compiled = <<>>
    /\ PbxIdle /\ PlaceIdle /\ SlnIdle /\ GrpIdle /\ TgtIdle /\ ExtIdle /\ WinIdle /\ AndIdle /\ OriIdle /\ MkIdle /\ IntIdle

SpecSources == SrcInit /\ [][populate_sources]_vars

-----------------------------------------------------------------------------
(* The settings of the Xcode project: assign_orientation, filter_modules,  *)
(* the includes and defines configure_external records, expand_includes,   *)
(* expand_defines and the order make calls them in (apple.py)              *)

(* A block of XCBuildConfiguration is the record of its identifier, the    *)
(* target whose configuration list names it, its name and its lines; a     *)
(* line is the sequence of the tokens the code searches it for. A link     *)
(* phase is the record of its identifier and the lines of its files list.  *)

ALL_TARGET == "EB0F3C8E27FB9DCB0037CC66"

\* The include directories, in the order sorted() gives them
IncludePaths == <<"a", "b", "m", "n">>

ORIENTATIONS == "INFOPLIST_KEY_UISupportedInterfaceOrientations"

\* XCBuildConfiguration and PBXFrameworksBuildPhase of the template
XcodeTemplate ==
    [XCBuildConfiguration |->
        [k \in 1..6 |->
            LET owner == <<ALL_TARGET, ALL_TARGET, MAC_TARGET, MAC_TARGET,
                           IOS_TARGET, IOS_TARGET>>[k]
            IN [uuid |-> <<"AD", "AR", "MD", "MR", "ID", "IR">>[k],
                owner |-> owner,
                name |-> IF k % 2 = 1 THEN "Debug" ELSE "Release",
                lines |->
                   (IF owner = ALL_TARGET THEN <<>>
                    ELSE << <<"HEADER_SEARCH_PATHS", "= (">>, <<"__APPLE_INCLUDE__", ",">>,
                            <<IF owner = MAC_TARGET THEN "__MACOS_INCLUDE__"
                                                    ELSE "__IOS_INCLUDE__", ",">>,
                            <<");">> >>)
                   \o << <<"GCC_PREPROCESSOR_DEFINITIONS", "= (">>,
                         <<"__EXTRA_DEFINES__", ",">>, <<");">> >>
                   \o (IF owner # IOS_TARGET THEN <<>>
                       ELSE << <<"INFOPLIST_KEY_UILaunchStoryboardName", "=", "Landscape", ";">>,
                               <<ORIENTATIONS, "_iPad", "=", "__ORIENTATION__", ";">>,
                               <<ORIENTATIONS, "_iPhone", "=", "__ORIENTATION__", ";">>,
                               <<"PRODUCT_NAME", "=", "app", ";">> >>)]],
     PBXFrameworksBuildPhase |->
        [k \in 1..2 |->
            [uuid |-> <<"P1", "P2">>[k],
             target |-> <<MAC_TARGET, IOS_TARGET>>[k],
             files |-> << <<"F1", "libcugl", ".a in Frameworks">>,
                          <<"F2", "libcugl-audio", ".a in Frameworks">>,
                          <<"F3", "libcugl-graphics", ".a in Frameworks">>,
                          <<"F4", "libcugl-scene2", ".a in Frameworks">> >>]]]

\* The XCBuildConfiguration blocks the generator writes for a library
\* target: one block per build type of 'defs', each with the list of its
\* defines; the entry $(inherited) is the two tokens '$(inherited' and ')'
LibraryConfigs(defs) ==
    [k \in DOMAIN defs |->
        [uuid |-> <<"C", defs[k].key>>, owner |-> "LIB", name |-> defs[k].key,
         lines |-> << <<"GCC_PREPROCESSOR_DEFINITIONS", "=", "(">>
                         \o Flatten([j \in DOMAIN defs[k].val |->
                               IF defs[k].val[j] = "$(inherited)"
                                 THEN <<"$(inherited", ")">>
                                 ELSE <<defs[k].val[j]>>])
                         \o <<")", ";">> >>]]

\* get_buildconfigs(uuid,pbxproj): build type (the lower-case name) -> block
get_buildconfigs(uuid, section) ==
    LET own == SelectSeq(section, LAMBDA b : b.owner = uuid)
        lower(name) == CASE name = "Debug" -> "debug"
                         [] name = "Release" -> "release"
                         [] name = "MinSizeRel" -> "minsizerel"
                         [] OTHER -> name
    IN [k \in DOMAIN own |-> [key |-> lower(own[k].name), val |-> own[k].uuid]]

\* extract_defines(uuid,pbxproj)
extract_defines(uuid, section) ==
    LET configs == get_buildconfigs(uuid, section)
        block(k) == CHOOSE b \in {section[i] : i \in DOMAIN section} : b.uuid = configs[k].val
        item(k) == Flatten(block(k).lines)
        found == SelectSeq([k \in DOMAIN configs |-> k],
                           LAMBDA k : Contains(item(k), "GCC_PREPROCESSOR_DEFINITIONS"))
        defines(k) ==
            LET pos0 == Find(item(k), "(", Find(item(k), "GCC_PREPROCESSOR_DEFINITIONS", 1)) + 1
                pos1 == Find(item(k), ")", pos0)
            IN SubSeq(item(k), pos0, pos1 - 1)
        keeping(k) == IF item(k) = <<"$(inherited", ")">> THEN <<>>
                      ELSE IF Contains(item(k), "CMAKE_INTDIR=Debug") THEN <<>>
                      ELSE defines(k)
    IN [j \in DOMAIN found |-> [key |-> configs[found[j]].key, val |-> keeping(found[j])]]

\* util.merge_dict: the keys of both, list values joined without repeats
merge_dict(d1, d2) ==
    LET both(k) == DictGet(d1, k) \o SelectSeq(DictGet(d2, k),
                                        LAMBDA x : ~Contains(DictGet(d1, k), x))
        first == [i \in DOMAIN d1 |->
                     IF HasKey(d2, d1[i].key) THEN [key |-> d1[i].key, val |-> both(d1[i].key)]
                     ELSE d1[i]]
    IN first \o SelectSeq(d2, LAMBDA e : ~HasKey(d1, e.key))

\* configure_external(config,module,project,target): the includes and
\* defines it stores in the configuration; module.includes is what
\* extract_includes returns for the library
record_link_information(config, module, target) ==
    LET platform == IF target = MAC_TARGET THEN "macos" ELSE "ios"
        includes == module.includes
        defines == extract_defines("LIB", module.blocks)
    IN [config EXCEPT
          !.include_dict =
             IF includes = <<>> THEN @
             ELSE IF HasKey(@, platform)
                    THEN DictSet(@, platform, DictGet(@, platform) \o includes)
                    ELSE DictSet(@, platform, includes),
          !.define_dict =
             IF defines = <<>> THEN @
             ELSE IF HasKey(@, platform)
                    THEN DictSet(@, platform, merge_dict(DictGet(@, platform), defines))
                    ELSE DictSet(@, platform, defines)]

\* assign_orientation(config,pbxproj)
assign_orientation(config, section) ==
    LET orientation == apple_determine_orientation(config.orientation)
        portrait == \E i \in DOMAIN orientation :
                       orientation[i] \in {"UIInterfaceOrientationPortrait",
                                           "UIInterfaceOrientationPortraitUpsideDown"}
        storyboard(key, data) ==
            IF portrait /\ Contains(data, key) THEN <<key, "=", "Portrait", ";">> ELSE data
        supported(key, data) ==
            IF In(key, data) THEN key \o <<"=">> \o orientation \o <<";">> ELSE data
        assign(data) ==
            supported(<<ORIENTATIONS, "_iPhone">>,
              supported(<<ORIENTATIONS, "_iPad">>,
                supported(<<ORIENTATIONS>>,
                  storyboard("INFOPLIST_KEY_UIMainStoryboardFile",
                    storyboard("INFOPLIST_KEY_UILaunchStoryboardName", data)))))
    IN [pos \in DOMAIN section |->
           [section[pos] EXCEPT !.lines = [ii \in DOMAIN @ |-> assign(@[ii])]]]

\* filter_modules(config,pbxproj); text.find gives -1 when the target does
\* not occur in the block and the position from 0 when it does
filter_modules(config, section) ==
    LET text(pos) == <<section[pos].uuid, "/* Frameworks */ = {", "files = (">>
                        \o Flatten(section[pos].files) \o <<");">>
        find(pos) == Find(text(pos), MAC_TARGET, 1) - 1
        modules(pos) ==
            IF find(pos) # 0
              THEN <<[key |-> "audio", val |-> "libcugl-audio"],
                     [key |-> "graphics", val |-> "libcugl-graphics"],
                     [key |-> "scene2", val |-> "libcugl-scene2"]>>
              ELSE <<[key |-> "audio", val |-> "libcugl-audio"],
                     [key |-> "scene2", val |-> "libcugl-scene2"]>>
        skip(pos, item) == \E k \in DOMAIN modules(pos) :
                              /\ ~config.modules[modules(pos)[k].key]
                              /\ Contains(item, modules(pos)[k].val)
    IN [pos \in DOMAIN section |->
           [section[pos] EXCEPT !.files = SelectSeq(@, LAMBDA item : ~skip(pos, item))]]

\* expand_includes(config,pbxproj): the configuration and the blocks it
\* leaves; allincludes is the list config['include_dict']['all'] itself
expand_includes(config, section) ==
    LET dict == config.include_dict
        given(k) == HasKey(dict, k) /\ DictGet(dict, k) # <<>>
        sorted(list) == SelectSeq(IncludePaths, LAMBDA x : Contains(list, x))
        groupdir(list) == [k \in DOMAIN list |-> <<"$(SRCROOT)/../", list[k], ",">>]
        macincludes == IF given("macos") THEN sorted(DictGet(dict, "macos")) ELSE <<>>
        iosincludes == IF given("ios") THEN sorted(DictGet(dict, "ios")) ELSE <<>>
        raised == given("apple") /\ ~HasKey(dict, "all")
        allincludes == IF ~given("all") THEN <<>>
                       ELSE IF given("apple") THEN DictGet(dict, "all") \o DictGet(dict, "all")
                       ELSE DictGet(dict, "all")
        replace(lines) ==
            Flatten([k \in DOMAIN lines |->
                CASE lines[k] = <<"__APPLE_INCLUDE__", ",">> -> groupdir(sorted(allincludes))
                  [] lines[k] = <<"__MACOS_INCLUDE__", ",">> -> groupdir(macincludes)
                  [] lines[k] = <<"__IOS_INCLUDE__", ",">> -> groupdir(iosincludes)
                  [] OTHER -> <<lines[k]>>])
    IN IF raised
         THEN [raised |-> "KeyError", config |-> config, section |-> section]
         ELSE [raised |-> Nil,
               config |-> IF given("all") /\ given("apple")
                            THEN [config EXCEPT !.include_dict = DictSet(@, "all", allincludes)]
                            ELSE config,
               section |-> [pos \in DOMAIN section |->
                               [section[pos] EXCEPT !.lines = replace(@)]]]

\* expand_defines(config,pbxproj): the loops over the platforms, the build
\* types of the platform's target and the blocks, with the local 'defines'
\* carried from one pass to the next; it is unbound until first assigned
expand_defines(config, section) ==
    LET dict == config.define_dict
        platforms == <<[key |-> "apple", val |-> ALL_TARGET],
                       [key |-> "macos", val |-> MAC_TARGET],
                       [key |-> "ios", val |-> IOS_TARGET]>>
        passes == Flatten([i \in DOMAIN platforms |->
                      LET buildconfigs == get_buildconfigs(platforms[i].val, section)
                      IN [k \in DOMAIN buildconfigs |->
                             [platform |-> platforms[i].key, build |-> buildconfigs[k].key,
                              uuid |-> buildconfigs[k].val]]])
        quoteit(defset) == [k \in DOMAIN defset |-> <<"\"", defset[k], "\",">>]
        replace(lines, defines) ==
            Flatten([k \in DOMAIN lines |->
                IF lines[k] = <<"__EXTRA_DEFINES__", ",">> THEN defines ELSE <<lines[k]>>])
        after[n \in 0..Len(passes)] ==
            IF n = 0 THEN [section |-> section, bound |-> FALSE, defines |-> <<>>, raised |-> Nil]
            ELSE LET before == after[n - 1]
                     pass == passes[n]
                     listed == /\ HasKey(dict, pass.platform)
                               /\ HasKey(DictGet(dict, pass.platform), pass.build)
                     defset == DictGet(DictGet(dict, pass.platform), pass.build)
                     bound == before.bound \/ ~listed \/ Len(defset) > 0
                     defines == IF ~listed THEN <<>>
                                ELSE IF Len(defset) > 0 THEN quoteit(defset)
                                ELSE before.defines
                 IN IF before.raised # Nil THEN before
                    ELSE IF ~bound THEN [before EXCEPT !.raised = "UnboundLocalError"]
                    ELSE [section |-> [pos \in DOMAIN before.section |->
                                          IF before.section[pos].uuid = pass.uuid
                                            THEN [before.section[pos] EXCEPT
                                                    !.lines = replace(@, defines)]
                                            ELSE before.section[pos]],
                          bound |-> TRUE, defines |-> defines, raised |-> Nil]
    IN [raised |-> after[Len(passes)].raised, section |-> after[Len(passes)].section]

\* The functions make calls on these sections, in order
AppleMakeExpandFirst ==
    <<"assign_orientation", "filter_modules", "expand_includes", "expand_defines",
      "add_externals", "write_pbxproj">>

AppleMake ==
    <<"assign_orientation", "filter_modules", "add_externals", "expand_includes",
      "expand_defines", "write_pbxproj">>

\* One call of make; add_externals is one step per module and platform,
\* the macOS loop first
apple_make_step ==
    /\ mstep.at \in DOMAIN AppleMake
    /\ mstep.raised = Nil
    /\ LET call == AppleMake[mstep.at]
           blocks == mproject.XCBuildConfiguration
           target == IF mstep.platform = "macos" THEN MAC_TARGET ELSE IOS_TARGET
           includes == expand_includes(mconfig, blocks)
           defs == expand_defines(mconfig, blocks)
           next == [mstep EXCEPT !.at = @ + 1]
       IN CASE call = "assign_orientation" ->
                 /\ mproject' = [mproject EXCEPT
                                   !.XCBuildConfiguration = assign_orientation(mconfig, @)]
                 /\ mstep' = next
                 /\ UNCHANGED mconfig
            [] call = "filter_modules" ->
                 /\ mproject' = [mproject EXCEPT
                                   !.PBXFrameworksBuildPhase = filter_modules(mconfig, @)]
                 /\ mstep' = next
                 /\ UNCHANGED mconfig
            [] call = "add_externals" ->
                 IF mstep.index > Len(mconfig.external)
                   THEN /\ mstep' = IF mstep.platform = "macos"
                                      THEN [mstep EXCEPT !.platform = "ios", !.index = 1]
                                      ELSE next
                        /\ UNCHANGED <<mconfig, mproject>>
                   ELSE /\ mconfig' = record_link_information(
                                          mconfig, mconfig.external[mstep.index], target)
                        /\ mstep' = [mstep EXCEPT !.index = @ + 1]
                        /\ UNCHANGED mproject
            [] call = "expand_includes" ->
                 /\ mconfig' = includes.config
                 /\ mproject' = [mproject EXCEPT !.XCBuildConfiguration = includes.section]
                 /\ mstep' = IF includes.raised = Nil THEN next
                             ELSE [mstep EXCEPT !.raised = includes.raised]
            [] call = "expand_defines" ->
                 /\ mproject' = [mproject EXCEPT !.XCBuildConfiguration = defs.section]
                 /\ mstep' = IF defs.raised = Nil THEN next
                             ELSE [mstep EXCEPT !.raised = defs.raised]
                 /\ UNCHANGED mconfig
            [] call = "write_pbxproj" ->
                 /\ mstep' = next
                 /\ UNCHANGED <<mconfig, mproject>>
    /\ UNCHANGED notMk

\* The configuration of make and the parsed template
MkInit ==
    /\ mconfig \in
          [orientation : {<<"portrait">>, <<"landscape">>},
           modules : {[audio |-> a, graphics |-> g, scene2 |-> TRUE] :
                         a \in BOOLEAN, g \in BOOLEAN},
           include_dict : {<<>>, <<[key |-> "all", val |-> <<"b", "a">>]>>,
                           <<[key |-> "apple", val |-> <<"b">>]>>,
                           <<[key |-> "all", val |-> <<"a">>],
                             [key |-> "apple", val |-> <<"b">>]>>},
           define_dict : {<<>>,
                          <<[key |-> "apple",
                             val |-> <<[key |-> "debug", val |-> <<"APP">>]>>]>>,
                          <<[key |-> "apple",
                             val |-> <<[key |-> "debug", val |-> <<>>]>>]>>},
           external : SeqsUpTo(
               {[includes |-> m.includes, defines |-> m.defines,
                 blocks |-> LibraryConfigs(m.defines)] :
                    m \in {[includes |-> <<"n">>,
                            defines |-> <<[key |-> "Debug", val |-> <<"X">>],
                                          [key |-> "Release", val |-> <<>>]>>],
                           [includes |-> <<>>,
                            defines |-> <<[key |-> "Debug", val |-> <<"X", "$(inherited)", "W">>],
                                          [key |-> "Release", val |-> <<"Y">>]>>],
                           [includes |-> <<"m">>,
                            defines |-> <<[key |-> "Debug", val |-> <<"CMAKE_INTDIR=Debug", "X">>],
                                          [key |-> "Release", val |-> <<"Y">>],
                                          [key |-> "MinSizeRel", val |-> <<"Z">>]>>],
                           [includes |-> <<"n">>,
                            defines |-> <<[key |-> "Debug", val |-> <<"Y">>],
                                          [key |-> "Release", val |-> <<"Y">>]>>]}},
               MaxModules)]
    /\ mproject = XcodeTemplate
    /\ mstep = [at |-> 1, platform |-> "macos", index |-> 1, raised |-> Nil]
    /\ PbxIdle /\ PlaceIdle /\ SlnIdle /\ GrpIdle /\ TgtIdle /\ ExtIdle /\ WinIdle /\ AndIdle /\ OriIdle /\ SrcIdle /\ IntIdle

SpecAppleMake == MkInit /\ [][apple_make_step]_vars

-----------------------------------------------------------------------------
(* The modules in the root solution: integrate_external_module as          *)
(* add_externals calls it for each module (windows.py)                     *)

\* The solution of the template: the application G3, which depends on the
\* library G2, and the folder G1 the library is nested in
HostSolution ==
    HeaderText
    \o <<ProjectLine(CONT_UUID, "CUGL", "CUGL", "G1"), Keyword("EndProject"),
         ProjectLine(PROJ_UUID, "cugl", "cugl.vcxproj", "G2"),
         Keyword("ProjectSection(ProjectDependencies)"), Keyword("EndProjectSection"),
         Keyword("EndProject"),
         ProjectLine(PROJ_UUID, "app", "app.vcxproj", "G3"),
         Keyword("ProjectSection(ProjectDependencies)"), DepLine("G2", "G2"),
         Keyword("EndProjectSection"), Keyword("EndProject"),
         Keyword("Global"),
         GlobalSectionLine("ProjectConfigurationPlatforms", "postSolution"),
         ValueLine("G2", ".Debug|x64.ActiveCfg = Debug|x64"),
         ValueLine("G3", ".Debug|x64.ActiveCfg = Debug|x64"),
         Keyword("EndGlobalSection"),
         GlobalSectionLine("NestedProjects", "preSolution"),
         ValueLine("G2", "G1"),
         Keyword("EndGlobalSection"),
         Keyword("EndGlobal")>>

nested_under_self(projset, uuid) ==
    [k \in DOMAIN projset |-> ValueLine(projset[k].key, projset[k].key)]

\* section.append('\t\t{%s} = {%s}' % (puuid, uuid)) for each project
nested_values(projset, uuid) ==
    [k \in DOMAIN projset |-> ValueLine(projset[k].key, uuid)]

\* integrate_external_module(config,module,solndir): the solution file it
\* leaves; the identifier service gives one identifier per module name.
\* The folder is 'lib'+name: no module here is named so that this is the
\* name of the application.
integrate_external_module(config, module, file) ==
    IF "windows" \notin module.keys THEN file
    ELSE IF "uuid" \notin config.keys THEN file
    ELSE
        LET data == parse_solution(file)
            uuid == <<"DA1", "DA2", "DA3", "DA4">>[module.name]
            group == <<"lib", module.name>>
            projset == module.windows
            folder == [hook |-> CONT_UUID, name |-> group, path |-> group,
                       dependencies |-> <<>>]
            RECURSIVE add_projects(_, _)
            add_projects(k, projects) ==
                IF k > Len(projset) THEN projects
                ELSE add_projects(k + 1,
                        DictSet(projects, projset[k].key,
                                [hook |-> PROJ_UUID, name |-> projset[k].val.name,
                                 path |-> <<config.camel, module.name, projset[k].val.path>>,
                                 dependencies |-> <<>>]))
            platforms ==
                Flatten([k \in DOMAIN projset |->
                    <<ValueLine(projset[k].key, ".Debug|x64.ActiveCfg = Debug|x64"),
                      ValueLine(projset[k].key, ".Debug|x64.Build.0 = Debug|x64"),
                      ValueLine(projset[k].key, ".Release|x64.ActiveCfg = Release|x64"),
                      ValueLine(projset[k].key, ".Release|x64.Build.0 = Release|x64")>>])
            append(globals, section, values) ==
                IF values = <<>> THEN globals
                ELSE DictSet(globals, section,
                             [DictGet(globals, section) EXCEPT !.values = @ \o values])
            added == add_projects(1, DictSet(data.SLNProjects, uuid, folder))
            projects ==
                IF HasKey(added, config.uuid)
                  THEN DictSet(added, config.uuid,
                               [DictGet(added, config.uuid) EXCEPT
                                   !.dependencies =
                                       @ \o [k \in DOMAIN projset |-> projset[k].key]])
                  ELSE added
        IN solution_lines(
               [data EXCEPT
                  !.SLNProjects = projects,
                  !.SLNGlobals =
                      append(append(@, "ProjectConfigurationPlatforms", platforms),
                             "NestedProjects", nested_values(projset, uuid))],
               TRUE)

\* One pass of the loop of add_externals
integrate_module ==
    /\ hstep \in DOMAIN hconfig.external
    /\ hprev' = parse_solution(hsolution)
    /\ hsolution' = integrate_external_module(hconfig, hconfig.external[hstep], hsolution)
    /\ hstep' = hstep + 1
    /\ UNCHANGED hconfig
    /\ UNCHANGED notInt

\* The configuration with the application's identifier as reassign_vcxproj
\* sets it, and modules with the projects configure_external_module found
IntInit ==
    /\ \E ext \in SeqsUpTo({"none", "empty", "one", "two"}, MaxModules) :
       \E main \in {{}, {"uuid"}} : \E id \in {"G3", "G9"} :
          hconfig =
             [keys |-> main, uuid |-> id, camel |-> "app",
              external |->
                 [n \in DOMAIN ext |->
                     [name |-> n,
                      keys |-> IF ext[n] = "none" THEN {} ELSE {"windows"},
                      windows |->
                         CASE ext[n] = "one" ->
                                 <<[key |-> <<"M1a", "M2a", "M3a", "M4a">>[n],
                                    val |-> [hook |-> PROJ_UUID, name |-> "lib",
                                             path |-> "lib.vcxproj"]]>>
                           [] ext[n] = "two" ->
                                 <<[key |-> <<"M1a", "M2a", "M3a", "M4a">>[n],
                                    val |-> [hook |-> PROJ_UUID, name |-> "lib",
                                             path |-> "lib.vcxproj"]],
                                   [key |-> <<"M1b", "M2b", "M3b", "M4b">>[n],
                                    val |-> [hook |-> PROJ_UUID, name |-> "dep",
                                             path |-> "dep.vcxproj"]]>>
                           [] OTHER -> <<>>]]]
    /\ hsolution = HostSolution
    /\ hprev = parse_solution(HostSolution)
    /\ hstep = 1
    /\ PbxIdle /\ PlaceIdle /\ SlnIdle /\ GrpIdle /\ TgtIdle /\ ExtIdle /\ WinIdle /\ AndIdle /\ OriIdle /\ SrcIdle /\ MkIdle

SpecIntegrate == IntInit /\ [][integrate_module]_vars

-----------------------------------------------------------------------------
(* Properties of parse_pbxproj and write_pbxproj *)

RECURSIVE SumParity(_)
SumParity(lines) ==
    IF lines = <<>> THEN 0 ELSE group_parity(Head(lines)) + SumParity(Tail(lines))

\* Line i of f lies in the body of the section whose Begin marker is line b
InBody(f, b, i) ==
    /\ b \in DOMAIN f /\ i \in DOMAIN f /\ b < i
    /\ f[b].k = "begin"
    /\ \A j \in (b+1)..i : f[j].k \notin {"begin", "end"}

\* The brace depth after body line i of the section that begins at line b
DepthAt(f, b, i) == SumParity(SubSeq(f, b+1, i))

\* The brace depth goes negative inside some section
GoesNegative(f) ==
    \E b \in DOMAIN f : \E i \in DOMAIN f : InBody(f, b, i) /\ DepthAt(f, b, i) < 0

\* The End marker that closes the section begun at line b
ClosedAt(f, b, e) ==
    /\ e \in DOMAIN f /\ b < e
    /\ f[e] = EndLine(f[b].s)
    /\ \A j \in (b+1)..(e-1) : f[j].k \notin {"begin", "end"}

\* Every section is closed by its End marker and a footer follows the last
Delimited(f) ==
    /\ \A b \in DOMAIN f : f[b].k = "begin" => \E e \in DOMAIN f : ClosedAt(f, b, e)
    /\ \E b \in DOMAIN f : f[b].k = "begin"
    /\ f[Len(f)].k = "text"
    /\ \E e \in DOMAIN f : f[e].k = "end" /\ \A j \in (e+1)..Len(f) : f[j].k # "begin"

\* Sections delimited by their markers, every object block brace-balanced
WellFormed(f) ==
    /\ f # <<>>
    /\ Delimited(f)
    /\ ~GoesNegative(f)
    /\ \A b \in DOMAIN f : \A e \in DOMAIN f :
          ClosedAt(f, b, e) => SumParity(SubSeq(f, b+1, e-1)) = 0

NamesOf(lines) == [i \in DOMAIN lines |-> lines[i].s]
IsBeginLine(l) == l.k = "begin"
IsEndLine(l) == l.k = "end"
IsReal(n) == n \notin Pseudo
BeginNames(f) == NamesOf(SelectSeq(f, IsBeginLine))
EndNames(f) == NamesOf(SelectSeq(f, IsEndLine))
RealOrder(order) == SelectSeq(order, IsReal)
BodyLines(f, s) ==
    Cardinality({i \in DOMAIN f : \E b \in DOMAIN f : f[b].s = s /\ InBody(f, b, i)})

IndexOf(f, l) == CHOOSE i \in DOMAIN f : f[i] = l

\* C1: for every well-formed file, write_pbxproj(parse_pbxproj(file)) with no
\* mutation in between reproduces the file line for line (header, blank lines
\* around the section markers and footer included).
C1_RoundTripExact ==
    (pc \in {"written", "aborted"} /\ edits = 0 /\ WellFormed(source))
        => written = source

\* C2: when the brace depth goes negative inside a section, parse_pbxproj
\* fails (it returns no model), generation is aborted and nothing is written.
C2_MismatchRejected ==
    GoesNegative(source) => (pc \in {"failed", "aborted"} /\ written = <<>>)

C2_Witness ==
    /\ pc = "aborted" /\ GoesNegative(source)
    /\ \E i \in DOMAIN source : source[i].k = "open"

\* C3: in every model parse_pbxproj returns, every object block of a real
\* section has balanced braces and is stored exactly once, also when the End
\* marker is reached while the brace depth is positive.
C3_BlocksBalancedOnce ==
    (pc = "parsed" /\ edits = 0 /\ Delimited(source)) =>
        \A s \in DOMAIN contents \ Pseudo :
            /\ \A i \in DOMAIN contents[s] : SumParity(contents[s][i]) = 0
            /\ Len(Flatten(contents[s])) <= BodyLines(source, s)

-----------------------------------------------------------------------------
(* Properties of place_entries *)

\* obj.split('\n')
RECURSIVE SplitLines(_)
SplitLines(obj) ==
    LET nl == Find(obj, "<nl>", 1)
    IN IF nl = 0 THEN <<obj>>
       ELSE <<SubSeq(obj, 1, nl - 1)>> \o SplitLines(SubSeq(obj, nl + 1, Len(obj)))

RECURSIVE IsSubseq(_, _)
IsSubseq(a, b) ==
    IF a = <<>> THEN TRUE
    ELSE IF b = <<>> THEN FALSE
    ELSE IF Head(a) = Head(b) THEN IsSubseq(Tail(a), Tail(b))
    ELSE IsSubseq(a, Tail(b))

Count(obj, toks) == Cardinality({i \in DOMAIN obj : obj[i] \in toks})

ParenBalance(obj) ==
    Count(obj, {FieldOpen("children"), FieldOpen("files")}) - Count(obj, {");"})
BraceBalance(obj) == Count(obj, {"{"}) - Count(obj, {"}"})

\* The line of obj that opens the list of field prefix
OpeningLine(obj, prefix) ==
    LET ls == SplitLines(obj)
    IN CHOOSE k \in DOMAIN ls :
          /\ Contains(ls[k], FieldOpen(prefix))
          /\ \A j \in 1..(k-1) : ~Contains(ls[j], FieldOpen(prefix))

Targeted(pos) == Contains(template[pos], "/* Assets */ =")
HasField(pos) == Contains(template[pos], FieldOpen("children"))

\* C5: when the block has no '<field> = (' opening, place_entries returns it
\* unchanged, so the caller that stores the result back leaves the block as
\* it was.
C5_UnchangedWithoutField ==
    ppc = "assets" =>
        \A pos \in DOMAIN groups :
            (Targeted(pos) /\ ~HasField(pos)) => groups[pos] = template[pos]

-----------------------------------------------------------------------------
(* Properties of parse_solution, write_solution and extract_module_projects *)

FolderWithDependencies(data) ==
    \E i \in DOMAIN data.SLNProjects :
        /\ data.SLNProjects[i].val.hook = CONT_UUID
        /\ data.SLNProjects[i].val.dependencies # <<>>

\* C7: parsing the file write_solution wrote from a parsed solution gives
\* the parsed solution again: the same header lines, projects (in order,
\* with hook, name, path, identifier and dependency list, also for projects
\* of the solution-folder type) and global sections.
C7_SolutionRoundTrip ==
    spc = "written" => parse_solution(slnout) = solndata

\* The round trip does hold for solutions whose folders have no dependencies
SolutionRoundTripWithoutFolderDeps ==
    (spc = "written" /\ ~FolderWithDependencies(solndata))
        => parse_solution(slnout) = solndata

\* C10: the discovered target set never holds the ZERO_CHECK project, and
\* the solution extract_module_projects writes holds exactly the discovered
\* projects: none of their dependencies and no ProjectConfigurationPlatforms
\* line names a project that was removed.
C10_ExtractKeepsDiscovered ==
    /\ \A i \in DOMAIN targetset : targetset[i].val.name # "ZERO_CHECK"
    /\ spc = "extracted" =>
          LET before  == parse_solution(slnfile)
              after   == parse_solution(slnout)
              removed == DictKeys(before.SLNProjects) \ DictKeys(targetset)
              pcp     == "ProjectConfigurationPlatforms"
          IN /\ DictKeys(after.SLNProjects) = DictKeys(targetset)
             /\ DictKeys(solndata.SLNProjects) = DictKeys(targetset)
             /\ DictKeys(targetset) \subseteq DictKeys(before.SLNProjects)
             /\ \A i \in DOMAIN after.SLNProjects :
                   \A j \in DOMAIN after.SLNProjects[i].val.dependencies :
                       after.SLNProjects[i].val.dependencies[j] \notin removed
             /\ \A i \in DOMAIN solndata.SLNProjects :
                   \A j \in DOMAIN solndata.SLNProjects[i].val.dependencies :
                       solndata.SLNProjects[i].val.dependencies[j] \notin removed
             /\ HasKey(after.SLNGlobals, pcp) =>
                   \A j \in DOMAIN DictGet(after.SLNGlobals, pcp).values :
                       DictGet(after.SLNGlobals, pcp).values[j].a \notin removed
             /\ \A j \in DOMAIN slnout :
                   slnout[j].k = "Value" => slnout[j].a \notin removed

C10_Witness ==
    /\ spc = "extracted"
    /\ targetset # <<>>
    /\ LET before == parse_solution(slnfile)
       IN /\ \E i \in DOMAIN before.SLNProjects :
                /\ before.SLNProjects[i].val.name = "ZERO_CHECK"
                /\ \E j \in DOMAIN before.SLNProjects :
                      /\ HasKey(targetset, before.SLNProjects[j].key)
                      /\ \E d \in DOMAIN before.SLNProjects[j].val.dependencies :
                            before.SLNProjects[j].val.dependencies[d]
                                = before.SLNProjects[i].key
          /\ HasKey(before.SLNGlobals, "ProjectConfigurationPlatforms")
          /\ \E v \in DOMAIN DictGet(before.SLNGlobals, "ProjectConfigurationPlatforms").values :
                ~HasKey(targetset,
                        DictGet(before.SLNGlobals, "ProjectConfigurationPlatforms").values[v].a)

-----------------------------------------------------------------------------
(* Properties of build_groups and build_filters *)

\* The paths, below the root, of the directories of a file tree
RECURSIVE DirPaths(_)
DirPaths(tree) ==
    {<<>>} \cup UNION {
        IF tree[i].dir
          THEN {<<tree[i].name>> \o q : q \in DirPaths(tree[i].children)}
          ELSE {} : i \in DOMAIN tree}

\* The items of the directory at path q
RECURSIVE ItemsAt(_, _)
ItemsAt(tree, q) ==
    IF q = <<>> THEN tree
    ELSE ItemsAt(tree[CHOOSE i \in DOMAIN tree : tree[i].name = Head(q)].children,
                 Tail(q))

Category(item) == IF item.dir THEN "group" ELSE item.tag

\* Where key occurs as a child: the pairs (entry, position)
ParentsOf(table, key) ==
    {<<i, j>> \in (DOMAIN table) \X (1..MaxNodes + 1) :
        j \in DOMAIN table[i].val.children /\ table[i].val.children[j][1] = key}

-----------------------------------------------------------------------------
(* Properties of target discovery *)

\* The target-dependency edges of the project, between native targets
DependencyEdges(proj) ==
    {<<proj.PBXNativeTarget[i].uuid, proj.PBXTargetDependency[j].target>> :
        <<i, j>> \in {e \in (DOMAIN proj.PBXNativeTarget) \X (DOMAIN proj.PBXTargetDependency) :
            \E k \in DOMAIN proj.PBXNativeTarget[e[1]].dependencies :
                proj.PBXNativeTarget[e[1]].dependencies[k]
                    = proj.PBXTargetDependency[e[2]].uuid}}

RECURSIVE ReachableFrom(_, _)
ReachableFrom(S, edges) ==
    LET more == S \cup {e[2] : e \in {f \in edges : f[1] \in S}}
    IN IF more = S THEN S ELSE ReachableFrom(more, edges)

\* The native targets named by the configured roots
RootTargets(proj, roots) ==
    {proj.PBXNativeTarget[i].uuid : i \in
        {j \in DOMAIN proj.PBXNativeTarget :
            \E r \in DOMAIN roots : roots[r] = proj.PBXNativeTarget[j].name}}

\* The targets whose built library is a key of the target set
Discovered(proj, tset) ==
    {proj.PBXNativeTarget[i].uuid : i \in
        {j \in DOMAIN proj.PBXNativeTarget :
            HasKey(tset, proj.PBXNativeTarget[j].productReference)}}

\* C9: target discovery from the configured root names gives exactly the
\* targets reachable from the roots along the target-dependency edges.
C9_DiscoveryIsReachability ==
    tpc = "done" =>
        Discovered(xproj, xtargets)
            = ReachableFrom(RootTargets(xproj, xroots), DependencyEdges(xproj))

\* Discovery is exact when the root name occurs in no other built library
Unambiguous(proj, roots) ==
    \A r \in DOMAIN roots : \A i \in DOMAIN proj.PBXFileReference :
        In(roots[r], FileReferenceText(proj.PBXFileReference[i]))
            => proj.PBXFileReference[i].name = <<"lib">> \o roots[r] \o <<".a">>

DiscoveryExactForUnambiguousRoots ==
    (tpc = "done" /\ Unambiguous(xproj, xroots)) =>
        Discovered(xproj, xtargets)
            = ReachableFrom(RootTargets(xproj, xroots), DependencyEdges(xproj))

\* The calls the discovery from the root made, and whether the project has
\* a dependency cycle through the root's library or a self-dependency
DiscoveryCalls == expand_targets_calls(xroots[1], <<>>, xproj)
SelfDependent(proj) ==
    \E i \in DOMAIN proj.PBXNativeTarget : \E k \in DOMAIN proj.PBXTargetDependency :
        /\ Contains(proj.PBXNativeTarget[i].dependencies, proj.PBXTargetDependency[k].uuid)
        /\ proj.PBXTargetDependency[k].target = proj.PBXNativeTarget[i].uuid

SelfDependentDiscovered ==
    /\ tpc = "done"
    /\ Len(DiscoveryCalls) = 2
    /\ SelfDependent(xproj)
    /\ \E a \in DependencyEdges(xproj) : a[1] = a[2] /\ a[1] \in Discovered(xproj, xtargets)

-----------------------------------------------------------------------------
(* Properties of the external modules of the Xcode project *)

\* No value occurs twice in the sequence
NoRepeats(seq) == \A j, k \in DOMAIN seq : j # k => seq[j] # seq[k]

\* The identifiers of the entries of a list
Uuids(list) == [i \in DOMAIN list |-> list[i].uuid]

\* A pass of the loop has run
Passed == xlast # <<>>

\* C11: when the configured root target name matches no target of a module
\* whose one project file was generated and parsed, the module is skipped
\* and nothing of it is spliced into the host project.
C11_UnmatchedRootSplicesNothing ==
    (Passed /\ xlast.outcome = [exit |-> "ok", found |-> 1] /\ ~xlast.matched)
        => pbxproj = xprev

\* C13: when the generator exits with an error or leaves more than one
\* project file, the module is skipped: no project file found is linked
\* into the host.
C13_FailedGenerationSplicesNothing ==
    (Passed /\ (xlast.outcome.exit = "error" \/ xlast.outcome.found > 1))
        => pbxproj = xprev

\* C14: linking a module for one platform target leaves the frameworks
\* build phase of the other platform's native target as it was; while the
\* modules are linked for macOS the iOS phase holds no entry.
C14_OtherLinkPhaseUnchanged ==
    Passed =>
        LET other == IF xlast.pass = "macos" THEN 2 ELSE 1
        IN /\ pbxproj.PBXFrameworksBuildPhase[other] = xprev.PBXFrameworksBuildPhase[other]
           /\ xlast.pass = "macos" => pbxproj.PBXFrameworksBuildPhase[2].files = <<>>

C14_Witness ==
    /\ Passed /\ xlast.index = 2 /\ xlast.matched /\ xlast.outcome.found = 1
    /\ \E pass \in {"macos", "ios"} : \E own \in 1..2 :
        /\ xlast.pass = pass
        /\ own = (IF pass = "macos" THEN 1 ELSE 2)
        /\ Len(pbxproj.PBXFrameworksBuildPhase[own].files)
              > Len(xprev.PBXFrameworksBuildPhase[own].files)
        /\ xprev.PBXFrameworksBuildPhase[own].files # <<>>

\* C15: the identifiers spliced into the host are pairwise distinct over
\* all modules, platforms and targets: no two project file references, no
\* two products groups, no two build files, no two reference proxies and no
\* two container proxies share an identifier.
C15_SplicedIdentifiersDistinct ==
    Passed =>
        /\ NoRepeats(SelectSeq(Uuids(pbxproj.PBXFileReference), LAMBDA u : u.prefix = "CA"))
        /\ NoRepeats(Uuids(pbxproj.PBXGroup))
        /\ NoRepeats(SelectSeq(Uuids(pbxproj.PBXBuildFile), LAMBDA u : u.prefix = "CC"))
        /\ NoRepeats(Uuids(pbxproj.PBXReferenceProxy))
        /\ NoRepeats(Uuids(pbxproj.PBXContainerItemProxy))

\* C16: while the modules are linked for one platform, every framework
\* name occurs at most once among the children of a platform's framework
\* group, has at most one file reference and one entry in a link phase, and
\* link_frameworks never fails.
C16_FrameworksLinkedOnce ==
    (Passed /\ xlast.pass = "macos") =>
        /\ xstep.pass # "failed"
        /\ \A g \in DOMAIN pbxproj.frameworks : NoRepeats(pbxproj.frameworks[g].children)
        /\ NoRepeats(Uuids(pbxproj.PBXFileReference))
        /\ \A f \in DOMAIN pbxproj.PBXFrameworksBuildPhase :
              NoRepeats(Uuids(pbxproj.PBXFrameworksBuildPhase[f].files))

\* C30: the working directory at the moment each external module starts
\* being processed is the working directory at entry to the external-linking
\* phase, and it is restored when the phase ends.
C30_WorkingDirectoryAtEachModule ==
    /\ xstep # <<>> => (xstep.pass \in {"macos", "ios"} => xstep.cwd = <<>>)
    /\ xstep # <<>> => (xstep.pass \in {"done", "failed"} => xstep.cwd = <<>>)

-----------------------------------------------------------------------------
(* Properties of the configurations of the Visual Studio project *)

\* The configuration make started from
ConfigAtStart ==
    [wmake.config EXCEPT !.keys = @ \ {"builds"},
                         !.builds = [includes |-> <<>>, defines |-> <<>>, dependencies |-> <<>>]]

\* The configuration without the modules that left no solution, and without
\* the key when no module is left
ConfigWithoutUnsolved ==
    LET kept == SelectSeq(ConfigAtStart.external,
                          LAMBDA module : \E i \in DOMAIN ConfigAtStart.external :
                              ConfigAtStart.external[i] = module /\ wmake.found[i] # 0)
    IN [ConfigAtStart EXCEPT !.external = kept,
                             !.keys = IF kept = <<>> THEN {} ELSE @]

\* C12: on Windows, when a module's generator leaves no solution, make runs
\* to completion and leaves the project it leaves when the modules without
\* a solution are not configured, also when no module is left.
C12_UnsolvedModuleAsIfNotConfigured ==
    (wmake # <<>> /\ wdev = "windows" /\ \E i \in DOMAIN wmake.found : wmake.found[i] = 0)
        => /\ wmake.raised = Nil
           /\ LET without == make_result(ConfigWithoutUnsolved, wdev,
                                         [i \in DOMAIN ConfigWithoutUnsolved.external |-> 1],
                                         VcxprojTemplate)
              IN wproject = without.vcxproj /\ wmake.solution = without.solution

\* C17: when the host is not Windows, add_externals runs no generator and
\* leaves the configuration as it was, and make runs to completion leaving
\* the project it leaves when no module is configured.
C17_ForeignHostLeavesTemplateProject ==
    (wmake # <<>> /\ wdev # "windows" /\ "external" \in wmake.config.keys)
        => /\ wmake.invoked = 0
           /\ wmake.config = ConfigAtStart
           /\ wmake.raised = Nil
           /\ wproject = make_result([ConfigAtStart EXCEPT !.keys = {}, !.external = <<>>],
                                     wdev, <<>>, VcxprojTemplate).vcxproj

\* C27: for a configuration without module data (an architecture other than
\* x64, or a build type whose module data are empty)
\* expand_build_configurations substitutes for the include and the define
\* placeholder the text expand_global_configurations substitutes, and both
\* functions complete for every include and define dictionary.
C27_BuildWithoutDataMatchesGlobal ==
    wmake # <<>> =>
        LET config == [wmake.config EXCEPT !.keys = @ \cup {"builds"}]
            global == expand_global_configurations(config, VcxprojTemplate)
            build == expand_build_configurations(config, VcxprojTemplate, <<>>)
        IN /\ global.raised = Nil
           /\ build.raised = Nil
           /\ \A g \in DOMAIN VcxprojTemplate.groups :
                 LET arch == VcxprojTemplate.groups[g].arch
                 IN (arch # "x64" \/ (config.builds.includes = <<>> /\ config.builds.defines = <<>>))
                       => /\ build.vcxproj.groups[g].includes = global.vcxproj.groups[g].includes
                          /\ build.vcxproj.groups[g].defines = global.vcxproj.groups[g].defines

-----------------------------------------------------------------------------
(* Properties of the steps of make (android.py) *)

\* C18: a run of make that fails for a missing required key has cleared,
\* copied, moved or rewritten nothing.
C18_MissingKeyBeforeMutation ==
    araised = TRUE => amutated = <<>>

-----------------------------------------------------------------------------
(* Properties of determine_orientation *)

\* The eight settings the functions name
NamedOrientations ==
    {<<"portrait">>, <<"landscape">>, <<"portrait", "-", "flipped">>,
     <<"landscape", "-", "flipped">>, <<"portrait", "-", "either">>,
     <<"landscape", "-", "either">>, <<"multidirectional">>, <<"omnidirectional">>}

\* C19: both mappings give a value for every setting; 'landscape-either'
\* gives an Apple value listing both UIInterfaceOrientationLandscapeRight and
\* UIInterfaceOrientationLandscapeLeft and the Android value
\* 'sensorLandscape'; a named setting gives a value no other named setting
\* gives, on each platform; every other setting gives the default,
\* UIInterfaceOrientationLandscapeRight and 'unspecified'.
C19_OrientationMappings ==
    oapple # <<>> =>
        /\ osetting = <<"landscape", "-", "either">> =>
              /\ In(<<"UIInterfaceOrientationLandscapeRight">>, oapple)
              /\ In(<<"UIInterfaceOrientationLandscapeLeft">>, oapple)
              /\ oandroid = "sensorLandscape"
        /\ osetting \in NamedOrientations =>
              \A other \in NamedOrientations \ {osetting} :
                  /\ apple_determine_orientation(other) # oapple
                  /\ android_determine_orientation(other) # oandroid
        /\ osetting \notin NamedOrientations =>
              /\ oapple = <<"UIInterfaceOrientationLandscapeRight">>
              /\ oandroid = "unspecified"

C19_Witness ==
    /\ osetting = <<"landscape", "-", "either">>
    /\ Len(oapple) = 4
    /\ oandroid = "sensorLandscape"

-----------------------------------------------------------------------------
(* Properties of the compiled sources *)

\* The files of a tree, each with its path, extension and tag
RECURSIVE LeavesOf(_, _)
LeavesOf(path, tree) ==
    IF tree = <<>> THEN {}
    ELSE (IF Head(tree).dir
            THEN LeavesOf(Append(path, Head(tree).name), Head(tree).children)
            ELSE {[path |-> Append(path, Head(tree).name), ext |-> Head(tree).name.ext,
                   tag |-> Head(tree).tag]})
         \cup LeavesOf(path, Tail(tree))

\* The tags that make a file a file of the platform
TagsOf(platform) ==
    {"all"} \cup (CASE platform = "macos" -> {"apple", "macos"}
                    [] platform = "ios" -> {"apple", "ios"}
                    [] platform = "windows" -> {"windows"}
                    [] platform = "android" -> {"android"})

\* The platforms a back end makes compiled-source entries for
PlatformsOf(backend) ==
    CASE backend = "apple" -> {"macos", "ios"}
      [] backend = "windows" -> {"windows"}
      [] backend = "android" -> {"android"}

\* Every file of the tree is compiled for a platform exactly when its
\* extension is a source extension and its tag covers the platform
CompiledExactly(made) ==
    \A platform \in PlatformsOf(compiled.backend) :
        \A leaf \in LeavesOf(<<[stem |-> compiled.backend, ext |-> ""]>>, srctree) :
            (\E i \in DOMAIN made[platform] : made[platform][i] = leaf.path)
                <=> (leaf.ext \in SOURCE_EXT(compiled.backend) /\ leaf.tag \in TagsOf(platform))

\* C20: a file of the source tree becomes a compiled-source entry of a
\* platform exactly when its extension is a source extension and its tag is
\* 'all' or a tag of the platform; so a file tagged for another platform
\* and a header get none.
C20_CompiledIffSourceAndTagged ==
    compiled # <<>> => (~compiled.raised /\ CompiledExactly(compiled.entries))

\* What holds instead: the walk is exact unless the tree is one file alone
CompiledExactlyUnlessLoneFile ==
    compiled # <<>> =>
        IF Len(srctree) = 1 /\ ~srctree[1].dir
          THEN compiled.raised
          ELSE ~compiled.raised /\ CompiledExactly(compiled.entries)


-----------------------------------------------------------------------------
(* Properties of the settings of the Xcode project *)

\* The place of a function in make, and whether make is past it
CallAt(name) == CHOOSE k \in DOMAIN AppleMake : AppleMake[k] = name
Called(name) == mstep # <<>> /\ mstep.at > CallAt(name)
JustCalled(name) == mstep # <<>> /\ mstep.at = CallAt(name) + 1

\* add_externals has been through module i for the platform
Recorded(i, platform) ==
    /\ mstep # <<>>
    /\ \/ Called("add_externals")
       \/ /\ mstep.at = CallAt("add_externals")
          /\ \/ mstep.platform = platform /\ mstep.index > i
             \/ mstep.platform = "ios" /\ platform = "macos"

\* The lines expand_includes and expand_defines write for a list
IncludeLines(list) == [k \in DOMAIN list |-> <<"$(SRCROOT)/../", list[k], ",">>]
DefineLines(list) == [k \in DOMAIN list |-> <<"\"", list[k], "\",">>]
IsDefineLine(line) == Len(line) = 3 /\ line[3] = "\","
IsIncludeLine(line) == Len(line) = 3 /\ line[1] = "$(SRCROOT)/../"
HasLine(block, line) == \E k \in DOMAIN block.lines : block.lines[k] = line
PlatformOf(block) ==
    CASE block.owner = MAC_TARGET -> "macos" [] block.owner = IOS_TARGET -> "ios"
      [] OTHER -> "apple"
BuildOf(block) == IF block.name = "Debug" THEN "debug" ELSE "release"
Unwanted == {"$(inherited)", "CMAKE_INTDIR=Debug"}

\* C22: the defines extracted from a module never contain '$(inherited)' or
\* an entry mentioning CMAKE_INTDIR and contain every other define of the
\* module's build configuration.
C22_ExtractedDefinesFiltered ==
    \A n \in DOMAIN mconfig.external :
        Recorded(n, "macos") =>
            LET module == mconfig.external[n]
                result == extract_defines("LIB", module.blocks)
            IN /\ Len(result) = Len(module.defines)
               /\ \A k \in DOMAIN result :
                     result[k].val = SelectSeq(module.defines[k].val,
                                               LAMBDA d : d \notin Unwanted)

\* C23: expand_defines replaces __EXTRA_DEFINES__ of each block with exactly
\* the defines of the block's own platform and build type, and with nothing
\* when there are none or the list is empty, whatever was processed before.
C23_DefinesOfOwnPlatformAndBuild ==
    (mstep # <<>> /\ mstep.at >= CallAt("expand_defines")) =>
        /\ mstep.raised # "UnboundLocalError"
        /\ Called("expand_defines") =>
              \A pos \in DOMAIN mproject.XCBuildConfiguration :
                 LET block == mproject.XCBuildConfiguration[pos]
                     dict == mconfig.define_dict
                     own == IF /\ HasKey(dict, PlatformOf(block))
                               /\ HasKey(DictGet(dict, PlatformOf(block)), BuildOf(block))
                              THEN DictGet(DictGet(dict, PlatformOf(block)), BuildOf(block))
                              ELSE <<>>
                 IN /\ SelectSeq(block.lines, IsDefineLine) = DefineLines(own)
                    /\ ~HasLine(block, <<"__EXTRA_DEFINES__", ",">>)

\* C24: filter_modules removes exactly the library entries of the disabled
\* modules and keeps the other lines in order; the graphics library is
\* dropped from the macOS phase only.
C24_DisabledLibrariesRemoved ==
    Called("filter_modules") =>
        \A pos \in DOMAIN mproject.PBXFrameworksBuildPhase :
            LET phase == mproject.PBXFrameworksBuildPhase[pos]
                before == XcodeTemplate.PBXFrameworksBuildPhase[pos]
                disabled(item) ==
                    \/ ~mconfig.modules.audio /\ Contains(item, "libcugl-audio")
                    \/ ~mconfig.modules.scene2 /\ Contains(item, "libcugl-scene2")
                    \/ /\ ~mconfig.modules.graphics /\ Contains(item, "libcugl-graphics")
                       /\ phase.target = MAC_TARGET
            IN phase.files = SelectSeq(before.files, LAMBDA item : ~disabled(item))

\* C25: assign_orientation changes only the values of the orientation and
\* storyboard settings: a block that had the keys ..._iPad and ..._iPhone
\* still has each exactly once, both with the configured value, and no
\* other line is changed.
C25_OrientationKeysKept ==
    JustCalled("assign_orientation") =>
        \A pos \in DOMAIN mproject.XCBuildConfiguration :
            LET lines == mproject.XCBuildConfiguration[pos].lines
                before == XcodeTemplate.XCBuildConfiguration[pos].lines
                value == apple_determine_orientation(mconfig.orientation)
            IN /\ Len(lines) = Len(before)
               /\ \A ii \in DOMAIN before :
                     IF before[ii][1] = ORIENTATIONS
                       THEN lines[ii] = <<ORIENTATIONS, before[ii][2], "=">> \o value \o <<";">>
                     ELSE IF before[ii][1] = "INFOPLIST_KEY_UILaunchStoryboardName"
                       THEN lines[ii][1] = before[ii][1]
                     ELSE lines[ii] = before[ii]

\* C26: expand_includes replaces __APPLE_INCLUDE__ with the includes tagged
\* 'all' and 'apple' together, sorted, each once, and leaves the include
\* dictionary of the configuration as it was.
C26_AppleIncludesInjected ==
    /\ [](mstep # <<>> /\ mstep.at >= CallAt("expand_includes") =>
            /\ mstep.raised # "KeyError"
            /\ Called("expand_includes") =>
                  \A pos \in DOMAIN mproject.XCBuildConfiguration :
                     LET block == mproject.XCBuildConfiguration[pos]
                         dict == mconfig.include_dict
                         tagged(k) == IF HasKey(dict, k) THEN DictGet(dict, k) ELSE <<>>
                         both == SelectSeq(IncludePaths, LAMBDA x :
                                    Contains(tagged("all"), x) \/ Contains(tagged("apple"), x))
                     IN block.owner = MAC_TARGET =>
                           SelectSeq(block.lines, IsIncludeLine)
                              = IncludeLines(both) \o
                                IncludeLines(SelectSeq(IncludePaths, LAMBDA x :
                                                Contains(tagged("macos"), x))))
    /\ [][(mstep # <<>> /\ mstep.at = CallAt("expand_includes"))
             => mconfig'.include_dict = mconfig.include_dict]_vars

\* The blocks of a platform's target, and what configure_external records
\* of module n
BlocksOf(platform) ==
    SelectSeq(mproject.XCBuildConfiguration, LAMBDA b : PlatformOf(b) = platform)
RecordedDefines(n) == extract_defines("LIB", mconfig.external[n].blocks)
Placeholders(block) ==
    {block.lines[k] : k \in DOMAIN block.lines} \cap
        {<<"__APPLE_INCLUDE__", ",">>, <<"__MACOS_INCLUDE__", ",">>,
         <<"__IOS_INCLUDE__", ",">>, <<"__EXTRA_DEFINES__", ",">>}

\* Nothing is expanded before add_externals is through, and what a module
\* recorded stays in the configuration
RecordedBeforeExpansion ==
    /\ mstep.at <= CallAt("add_externals") =>
          \A pos \in DOMAIN mproject.XCBuildConfiguration :
             Placeholders(mproject.XCBuildConfiguration[pos])
                = Placeholders(XcodeTemplate.XCBuildConfiguration[pos])
    /\ \A n \in DOMAIN mconfig.external : \A platform \in {"macos", "ios"} :
          Recorded(n, platform) =>
             /\ \A j \in DOMAIN mconfig.external[n].includes :
                   /\ HasKey(mconfig.include_dict, platform)
                   /\ Contains(DictGet(mconfig.include_dict, platform),
                               mconfig.external[n].includes[j])
             /\ \A k \in DOMAIN RecordedDefines(n) :
                   LET build == RecordedDefines(n)[k]
                   IN /\ HasKey(mconfig.define_dict, platform)
                      /\ HasKey(DictGet(mconfig.define_dict, platform), build.key)
                      /\ \A j \in DOMAIN build.val :
                            Contains(DictGet(DictGet(mconfig.define_dict, platform), build.key),
                                     build.val[j])

\* The includes a module recorded are in every block of the platform
RecordedIncludesWritten ==
    Called("write_pbxproj") =>
        \A n \in DOMAIN mconfig.external : \A platform \in {"macos", "ios"} :
            \A pos \in DOMAIN BlocksOf(platform) :
                \A j \in DOMAIN mconfig.external[n].includes :
                    HasLine(BlocksOf(platform)[pos],
                            <<"$(SRCROOT)/../", mconfig.external[n].includes[j], ",">>)

-----------------------------------------------------------------------------
(* Properties of the modules in the root solution *)

\* The root solution as parse_solution reads it, and its sections
RootSolution == parse_solution(hsolution)
RootProjects == DictKeys(RootSolution.SLNProjects)
RootValues(section) == DictGet(RootSolution.SLNGlobals, section).values
Integrated(n) ==
    n < hstep /\ "windows" \in hconfig.external[n].keys /\ "uuid" \in hconfig.keys

\* C28: after integrate_external_module has run for any sequence of
\* modules the host solution is referentially closed: the identifiers of
\* the main project's dependency list, of the ProjectConfigurationPlatforms
\* lines and both identifiers of the NestedProjects lines are projects of
\* the solution; each module project is nested under the folder project of
\* its own module; and the projects present before an integration are
\* unchanged by it apart from the main project's dependency list.
C28_SolutionReferentiallyClosed ==
    /\ HasKey(RootSolution.SLNProjects, hconfig.uuid) =>
          \A k \in DOMAIN DictGet(RootSolution.SLNProjects, hconfig.uuid).dependencies :
              DictGet(RootSolution.SLNProjects, hconfig.uuid).dependencies[k] \in RootProjects
    /\ \A k \in DOMAIN RootValues("ProjectConfigurationPlatforms") :
          RootValues("ProjectConfigurationPlatforms")[k].a \in RootProjects
    /\ \A k \in DOMAIN RootValues("NestedProjects") :
          /\ RootValues("NestedProjects")[k].a \in RootProjects
          /\ RootValues("NestedProjects")[k].b \in RootProjects
    /\ \A n \in DOMAIN hconfig.external :
          Integrated(n) =>
             \A j \in DOMAIN hconfig.external[n].windows :
                LET puuid == hconfig.external[n].windows[j].key
                    parents == {RootValues("NestedProjects")[k].b :
                                   k \in {i \in DOMAIN RootValues("NestedProjects") :
                                             RootValues("NestedProjects")[i].a = puuid}}
                IN /\ Cardinality(parents) = 1
                   /\ \A g \in parents :
                         /\ HasKey(RootSolution.SLNProjects, g)
                         /\ DictGet(RootSolution.SLNProjects, g).hook = CONT_UUID
                         /\ DictGet(RootSolution.SLNProjects, g).name
                               = <<"lib", hconfig.external[n].name>>
    /\ \A k \in DOMAIN hprev.SLNProjects :
          LET id == hprev.SLNProjects[k].key
          IN /\ HasKey(RootSolution.SLNProjects, id)
             /\ IF id = hconfig.uuid
                  THEN [DictGet(RootSolution.SLNProjects, id) EXCEPT !.dependencies = <<>>]
                          = [hprev.SLNProjects[k].val EXCEPT !.dependencies = <<>>]
                  ELSE DictGet(RootSolution.SLNProjects, id) = hprev.SLNProjects[k].val

\* Two modules integrated, the second with two projects, both nested and
\* both dependencies of the application
C28_Witness ==
    /\ hstep = 3
    /\ Integrated(1) /\ Integrated(2)
    /\ Len(hconfig.external[1].windows) = 1
    /\ Len(hconfig.external[2].windows) = 2
    /\ HasKey(RootSolution.SLNProjects, hconfig.uuid)
    /\ Len(DictGet(RootSolution.SLNProjects, hconfig.uuid).dependencies) = 4
    /\ Len(RootValues("NestedProjects")) = 4

=============================================================================
